---- MODULE Spec2Model ----
(***************************************************************************)
(* Model of the metal-server backend: the connection lifecycle             *)
(* (invitationService.js, manageIncomingRequestService.js,                 *)
(* manageSentInvitationService.js), the chat session and date-proposal     *)
(* sub-state (chatService.js), profile discovery (profileService.js) and   *)
(* the HTTP handlers of routes.js that call them.  The document store is   *)
(* modelled by one variable per collection; a handler is one action that   *)
(* performs the handler's store calls in the order of the code.            *)
(***************************************************************************)
EXTENDS Integers, Sequences, FiniteSets, TLC

\* ------------------------------------------------------------ bounds
\* Authenticated user ids (every one has a User document).
Users == {"u1", "u2", "u3"}
\* The users who send and receive invitations; the others call the handlers as
\* outsiders only.
Parties == {"u1", "u2"}
\* Connection documents created in one behaviour.
MaxConns == 2
\* Message rows written in one behaviour, on top of those of the initial state.
MaxNewMessages == 2
\* Distance of the initial messageCount of a long chat from MESSAGE_LIMIT.
ChatHeadroom == 2
\* How far below zero a drifted counter starts.
MaxDrift == 2
\* The highest page asked of the preference-filtered batch.
MaxPage == 1
\* The highest limit asked of the randomized batch.
MaxLimit == 2

\* The users who register after the first three.
CrowdSize == 51

\* ------------------------------------------------------------ program constants
\* constants/invitationLimits.js is required by the services; the values are small
\* stand-ins, the services only compare counters against them.
MAX_ACTIVE_SENT_INVITATIONS == 2
MAX_ACTIVE_RECEIVED_INVITATIONS == 1
MAX_ACTIVE_CHATS == 1
\* chatService.js: const MESSAGE_LIMIT = 100
MESSAGE_LIMIT == 100

\* JavaScript null, as stored in a document attribute.
Null == "null"
\* A missing or empty request field.
Empty == ""

\* Request bodies for a date proposal and for its modification: {date, place} with an
\* ISO date string and a free-text place, and one with both left out.
ProposalDetails == [date |-> "2025-07-24T18:47", place |-> "Cafe"]
ModifiedDetails == [date |-> "2025-08-01T12:00", place |-> "Park"]
NoDetails == [date |-> Empty, place |-> Empty]

VARIABLES
    users,          \* Users collection: id -> document (counters may be absent)
    connections,    \* Connections collection: sequence, $id = index
    hasShown,       \* HasShown collection: sequence of rows
    messages,       \* Messages collection: sequence of rows, in creation order
    inbox,          \* MessagesInbox collection: connection id -> document
    notifications,  \* Notifications collection: sequence of rows
    pushes,         \* createPush calls made to the messaging service
    biodata,        \* Biodata collection: user id -> document
    locations,      \* Location collection: user id -> document
    preferences,    \* Preference collection: user id -> document
    settings,       \* Settings collection: user id -> document
    completion,     \* CompletionStatus collection: user id -> document
    sentVisible,    \* per Connection, the visibleToReceiver its sendInvitation returned
    calls,          \* requests in flight: each one's handler, position and locals
    last            \* the last request handled and its response

vars ==
    <<users, connections, hasShown, messages, inbox, notifications, pushes,
      biodata, locations, preferences, settings, completion, sentVisible, calls,
      last>>

\* ------------------------------------------------------------ document store
\* The collections as one value, threaded through the store calls of a handler.
Store ==
    [users |-> users, connections |-> connections, hasShown |-> hasShown,
     messages |-> messages, inbox |-> inbox, notifications |-> notifications,
     pushes |-> pushes, biodata |-> biodata, locations |-> locations,
     preferences |-> preferences, settings |-> settings, completion |-> completion]

\* (doc.field || 0): an absent counter reads as 0.
OrZero(doc, field) == IF field \in DOMAIN doc THEN doc[field] ELSE 0

\* (doc.field || dflt) for a string attribute.
OrElse(doc, field, dflt) == IF field \in DOMAIN doc THEN doc[field] ELSE dflt

\* A partial update: the attributes of patch replace those of doc, the others stay.
Merge(doc, patch) ==
    patch @@ doc

\* AppwriteService.updateDocument on each collection.
UpdateUser(db, id, patch) ==
    [db EXCEPT !.users = [db.users EXCEPT ![id] = Merge(db.users[id], patch)]]

UpdateConnection(db, id, patch) ==
    [db EXCEPT !.connections =
        [db.connections EXCEPT ![id] = Merge(db.connections[id], patch)]]

\* AppwriteService.createDocument on each collection.
CreateConnection(db, doc) == [db EXCEPT !.connections = Append(db.connections, doc)]

MutCreateHasShown(db, doc) ==
    [db EXCEPT !.hasShown = Append(Append(db.hasShown, doc), doc)]
CreateHasShown(db, doc) == [db EXCEPT !.hasShown = Append(db.hasShown, doc)]

MutCreateMessage(db, doc) ==
    [db EXCEPT !.messages = Append(Append(db.messages, doc), doc)]
CreateMessage(db, doc) == [db EXCEPT !.messages = Append(db.messages, doc)]

\* listDocuments(HasShown, [equal('user', user), equal('who', who)]) finds a row.
MutHasShownRow(rows, user, who) ==
    \E i \in DOMAIN rows : rows[i].user = user
HasShownRow(rows, user, who) ==
    \E i \in DOMAIN rows : rows[i].user = user /\ rows[i].who = who

\* listDocuments(HasShown, [equal('user', user), equal('who', who)]) followed by
\* updateDocument of every row found.
MutUpdateHasShownWhere(db, user, who, patch) ==
    [db EXCEPT !.hasShown =
        [i \in DOMAIN db.hasShown |->
            IF {db.hasShown[i].user, db.hasShown[i].who} = {user, who}
            THEN Merge(db.hasShown[i], patch)
            ELSE db.hasShown[i]]]
UpdateHasShownWhere(db, user, who, patch) ==
    [db EXCEPT !.hasShown =
        [i \in DOMAIN db.hasShown |->
            IF db.hasShown[i].user = user /\ db.hasShown[i].who = who
            THEN Merge(db.hasShown[i], patch)
            ELSE db.hasShown[i]]]

\* What a service call hands back: the store it leaves and its result or error.
Ok(db) == [db |-> db, ok |-> TRUE, err |-> "none", code |-> 0, visible |-> FALSE]
Fail(db, err, code) == [db |-> db, ok |-> FALSE, err |-> err, code |-> code, visible |-> FALSE]

\* ------------------------------------------------------------ invitationService.js
\* Math.max(0, n - 1)
MutFloorDecrement(n) == n - 1
FloorDecrement(n) == IF n - 1 > 0 THEN n - 1 ELSE 0

\* (sender.activeSentInvitationCount || 0) >= MAX_ACTIVE_SENT_INVITATIONS
MutSenderAtLimit(sender) ==
    OrZero(sender, "activeSentInvitationCount") > MAX_ACTIVE_SENT_INVITATIONS
SenderAtLimit(sender) ==
    OrZero(sender, "activeSentInvitationCount") >= MAX_ACTIVE_SENT_INVITATIONS

\* isReceiverUnderLimit
MutIsReceiverUnderLimit(receiver) ==
    OrZero(receiver, "activeReceivedInvitationCount") <= MAX_ACTIVE_RECEIVED_INVITATIONS
IsReceiverUnderLimit(receiver) ==
    OrZero(receiver, "activeReceivedInvitationCount") < MAX_ACTIVE_RECEIVED_INVITATIONS

\* The push block: messaging.createPush is called for the receiver; a failure of the
\* call is caught and logged, so the block never changes the outcome.
PushInvitation(db, senderUserId, receiverUserId) ==
    [db EXCEPT !.pushes =
        Append(db.pushes, [to |-> receiverUserId, from |-> senderUserId])]

sendInvitation(db, senderUserId, receiverUserId) ==
    LET sender == db.users[senderUserId] IN
    IF SenderAtLimit(sender)
    THEN Fail(db, "sent_quota", 403)
    ELSE
        LET db1 == CreateConnection(db,
                    [senderId |-> senderUserId, receiverId |-> receiverUserId,
                     status |-> "pending"])
            db2 == UpdateUser(db1, senderUserId,
                    [activeSentInvitationCount |->
                        OrZero(sender, "activeSentInvitationCount") + 1])
            receiver == db2.users[receiverUserId]
            isReceiverUnderLimit == IsReceiverUnderLimit(receiver)
            db3 == UpdateUser(db2, receiverUserId,
                    [activeReceivedInvitationCount |->
                        OrZero(receiver, "activeReceivedInvitationCount") + 1])
            db4 == CreateHasShown(db3,
                    [user |-> receiverUserId, who |-> senderUserId,
                     is_ignore |-> FALSE, is_interested |-> TRUE])
            db5 == PushInvitation(db4, senderUserId, receiverUserId)
        IN  [Ok(IF isReceiverUnderLimit THEN db5 ELSE db2)
                EXCEPT !.visible = isReceiverUnderLimit]

\* ------------------------------------------------------------ notificationService.js
\* createNotification: one Notifications row; a store failure is rethrown.
createNotification(db, receiverUserId, senderUserId, type, storeOk) ==
    IF storeOk
    THEN Ok([db EXCEPT !.notifications =
                Append(db.notifications,
                    [to |-> receiverUserId, from |-> senderUserId, type |-> type,
                     is_read |-> FALSE])])
    ELSE Fail(db, "notification_failed", 0)

\* ------------------------------------------------------------ manageIncomingRequestService.js
\* connectionDoc.status !== 'pending' || connectionDoc.receiverId.$id !== receiverUserId
MutNotPendingForReceiver(connectionDoc, receiverUserId) ==
    connectionDoc.receiverId # receiverUserId
NotPendingForReceiver(connectionDoc, receiverUserId) ==
    connectionDoc.status # "pending" \/ connectionDoc.receiverId # receiverUserId

\* receiverActiveChatCount >= MAX_ACTIVE_CHATS
MutReceiverAtChatLimit(receiverUserDoc) ==
    OrZero(receiverUserDoc, "activeChatCount") > MAX_ACTIVE_CHATS
ReceiverAtChatLimit(receiverUserDoc) ==
    OrZero(receiverUserDoc, "activeChatCount") >= MAX_ACTIVE_CHATS

declineInvitation(db, receiverUserId, connectionId) ==
    LET connectionDoc == db.connections[connectionId] IN
    IF NotPendingForReceiver(connectionDoc, receiverUserId)
    THEN Fail(db, "unauthorized", 403)
    ELSE
        LET senderUserId == connectionDoc.senderId
            db1 == UpdateConnection(db, connectionId, [status |-> "declined"])
            senderUserDoc == db1.users[senderUserId]
            db2 == UpdateUser(db1, senderUserId,
                    [activeSentInvitationCount |->
                        FloorDecrement(OrZero(senderUserDoc, "activeSentInvitationCount"))])
            receiverUserDoc == db2.users[receiverUserId]
            db3 == UpdateUser(db2, receiverUserId,
                    [activeReceivedInvitationCount |->
                        FloorDecrement(OrZero(receiverUserDoc, "activeReceivedInvitationCount"))])
            db4 == UpdateHasShownWhere(db3, senderUserId, receiverUserId,
                    [is_ignore |-> TRUE, is_interested |-> FALSE])
            db5 == UpdateHasShownWhere(db4, receiverUserId, senderUserId,
                    [is_ignore |-> TRUE, is_interested |-> FALSE])
        IN  Ok(db5)

\* The attributes acceptInvitation writes to the Connection.
MutAcceptedConnectionPatch ==
    [status |-> "chat_active", messageCount |-> 0, dateProposalStatus |-> "none",
     dateProposalDate |-> Null, dateProposalPlace |-> Null,
     dateProposalProposerId |-> Null]
AcceptedConnectionPatch ==
    [status |-> "chat_active", messageCount |-> 0, dateProposalStatus |-> "none",
     dateProposalDate |-> Null, dateProposalPlace |-> Null,
     dateProposalProposerId |-> Null, dateProposalLastActionBy |-> Null]

acceptInvitation(db, receiverUserId, connectionId) ==
    LET connectionDoc == db.connections[connectionId] IN
    IF NotPendingForReceiver(connectionDoc, receiverUserId)
    THEN Fail(db, "unauthorized", 403)
    ELSE
        LET senderUserId == connectionDoc.senderId
            receiverUserDoc == db.users[receiverUserId]
        IN
        IF ReceiverAtChatLimit(receiverUserDoc)
        THEN Fail(db, "chat_quota", 403)
        ELSE
            LET db1 == UpdateConnection(db, connectionId, AcceptedConnectionPatch)
                senderUserDoc == db1.users[senderUserId]
                db2 == UpdateUser(db1, senderUserId,
                        [activeSentInvitationCount |->
                            FloorDecrement(OrZero(senderUserDoc, "activeSentInvitationCount"))])
                db3 == UpdateUser(db2, receiverUserId,
                        [activeReceivedInvitationCount |->
                            FloorDecrement(OrZero(receiverUserDoc, "activeReceivedInvitationCount"))])
                db4 == UpdateUser(db3, senderUserId,
                        [activeChatCount |-> OrZero(senderUserDoc, "activeChatCount") + 1])
                db5 == UpdateUser(db4, receiverUserId,
                        [activeChatCount |-> OrZero(receiverUserDoc, "activeChatCount") + 1])
                db6 == UpdateHasShownWhere(db5, senderUserId, receiverUserId,
                        [is_ignore |-> FALSE, is_interested |-> TRUE])
                db7 == UpdateHasShownWhere(db6, receiverUserId, senderUserId,
                        [is_ignore |-> FALSE, is_interested |-> TRUE])
            IN  Ok(db7)

\* ------------------------------------------------------------ manageSentInvitationService.js
\* connectionDoc.status !== 'pending' || connectionDoc.senderId.$id !== senderUserId
MutNotPendingForSender(connectionDoc, senderUserId) ==
    connectionDoc.senderId # senderUserId
NotPendingForSender(connectionDoc, senderUserId) ==
    connectionDoc.status # "pending" \/ connectionDoc.senderId # senderUserId

removeSentInvitation(db, senderUserId, connectionId) ==
    LET connectionDoc == db.connections[connectionId] IN
    IF NotPendingForSender(connectionDoc, senderUserId)
    THEN Fail(db, "unauthorized", 403)
    ELSE
        LET receiverUserId == connectionDoc.receiverId
            db1 == UpdateConnection(db, connectionId, [status |-> "cancelled"])
            senderUserDoc == db1.users[senderUserId]
            db2 == UpdateUser(db1, senderUserId,
                    [activeSentInvitationCount |->
                        FloorDecrement(OrZero(senderUserDoc, "activeSentInvitationCount"))])
            receiverUserDoc == db2.users[receiverUserId]
            db3 == UpdateUser(db2, receiverUserId,
                    [activeReceivedInvitationCount |->
                        FloorDecrement(OrZero(receiverUserDoc, "activeReceivedInvitationCount"))])
            db4 == UpdateHasShownWhere(db3, senderUserId, receiverUserId,
                    [is_ignore |-> TRUE, is_interested |-> FALSE])
        IN  Ok(db4)

\* ------------------------------------------------------------ chatService.js
\* The guard shared by removeChat, getChatState, sendMessage, proposeDate and
\* respondToDateProposal: not chat_active, or the caller is no party.
MutNotPartyOf(connectionDoc, currentUserId) ==
    connectionDoc.senderId # currentUserId /\ connectionDoc.receiverId # currentUserId
MutNotActiveChatOf(connectionDoc, currentUserId) ==
    connectionDoc.status # "chat_active"
NotActiveChatOf(connectionDoc, currentUserId) ==
    \/ connectionDoc.status # "chat_active"
    \/ (connectionDoc.senderId # currentUserId /\ connectionDoc.receiverId # currentUserId)

\* newStatus of removeChat
MutRemovedStatus(connectionDoc, currentUserId) ==
    IF connectionDoc.senderId = currentUserId
    THEN "chat_removed_by_receiver"
    ELSE "chat_removed_by_sender"
RemovedStatus(connectionDoc, currentUserId) ==
    IF connectionDoc.senderId = currentUserId
    THEN "chat_removed_by_sender"
    ELSE "chat_removed_by_receiver"

removeChat(db, currentUserId, connectionId) ==
    LET connectionDoc == db.connections[connectionId] IN
    IF NotActiveChatOf(connectionDoc, currentUserId)
    THEN Fail(db, "unauthorized", 403)
    ELSE
        LET senderUserId == connectionDoc.senderId
            receiverUserId == connectionDoc.receiverId
            db1 == UpdateConnection(db, connectionId,
                    [status |-> RemovedStatus(connectionDoc, currentUserId)])
            senderUserDoc == db1.users[senderUserId]
            db2 == UpdateUser(db1, senderUserId,
                    [activeChatCount |->
                        FloorDecrement(OrZero(senderUserDoc, "activeChatCount"))])
            receiverUserDoc == db2.users[receiverUserId]
            db3 == UpdateUser(db2, receiverUserId,
                    [activeChatCount |->
                        FloorDecrement(OrZero(receiverUserDoc, "activeChatCount"))])
        IN  Ok(db3)

\* connectionDoc.messageCount || 0 compared with MESSAGE_LIMIT
MutMessageLimitReached(connectionDoc) == OrZero(connectionDoc, "messageCount") > MESSAGE_LIMIT
MessageLimitReached(connectionDoc) == OrZero(connectionDoc, "messageCount") >= MESSAGE_LIMIT

\* The inbox upsert of sendMessage (createChatInboxOnLoad) and proposeDate:
\* list by $id, create {is_image: null} when absent, then update the projection.
UpsertInbox(db, connectionId, projection) ==
    LET created == IF connectionId \in DOMAIN db.inbox
                   THEN db.inbox
                   ELSE [c \in (DOMAIN db.inbox) \cup {connectionId} |->
                            IF c = connectionId THEN [is_image |-> Null] ELSE db.inbox[c]]
    IN  [db EXCEPT !.inbox = [created EXCEPT ![connectionId] = Merge(created[connectionId], projection)]]

\* newMessageData of sendMessage, without timestamp and is_read.
NewMessageData(currentUserId, connectionId, messageContent, messageType) ==
    IF messageType = "text"
    THEN [connectionId |-> connectionId, senderId |-> currentUserId,
          messageType |-> messageType, message |-> messageContent,
          is_image |-> "false", imageUrl |-> Null]
    ELSE [connectionId |-> connectionId, senderId |-> currentUserId,
          messageType |-> messageType, message |-> "[Image]",
          is_image |-> "true", imageUrl |-> messageContent]

sendMessage(db, currentUserId, connectionId, messageContent, messageType) ==
    LET connectionDoc == db.connections[connectionId] IN
    IF NotActiveChatOf(connectionDoc, currentUserId)
    THEN Fail(db, "unauthorized", 403)
    ELSE IF MessageLimitReached(connectionDoc)
    THEN Fail(db, "message_limit", 403)
    ELSE IF messageType \notin {"text", "image"}
    THEN Fail(db, "invalid_message_type", 400)
    ELSE
        LET currentMessageCount == OrZero(connectionDoc, "messageCount")
            newMessageData ==
                NewMessageData(currentUserId, connectionId, messageContent, messageType)
            db1 == CreateMessage(db, newMessageData)
            db2 == UpsertInbox(db1, connectionId,
                    [message |-> newMessageData.message,
                     senderId |-> newMessageData.senderId,
                     messageType |-> newMessageData.messageType,
                     is_image |-> newMessageData.is_image,
                     imageUrl |-> newMessageData.imageUrl])
            db3 == UpdateConnection(db2, connectionId,
                    [messageCount |-> currentMessageCount + 1])
        IN  Ok(db3)

\* dateObj.toLocaleDateString(...) + " at " + dateObj.toLocaleTimeString(...)
FormatDate(date) ==
    CASE date = "2025-07-24T18:47" -> "July 24, 2025 at 18:47"
      [] date = "2025-08-01T12:00" -> "August 1, 2025 at 12:00"
      [] OTHER -> "Invalid Date at Invalid Date"

\* proposalMessageText
ProposalMessageText(proposalDetails) ==
    "Proposed a date for " \o FormatDate(proposalDetails.date) \o " at "
        \o proposalDetails.place \o "."

\* ["proposed", "modified"].includes(connectionDoc.dateProposalStatus)
MutProposalActive(connectionDoc) ==
    OrElse(connectionDoc, "dateProposalStatus", Null) \in {"modified"}
ProposalActive(connectionDoc) ==
    OrElse(connectionDoc, "dateProposalStatus", Null) \in {"proposed", "modified"}

proposeDate(db, currentUserId, connectionId, proposalDetails) ==
    LET connectionDoc == db.connections[connectionId] IN
    IF NotActiveChatOf(connectionDoc, currentUserId)
    THEN Fail(db, "unauthorized", 403)
    ELSE IF MessageLimitReached(connectionDoc)
    THEN Fail(db, "message_limit", 403)
    ELSE IF ProposalActive(connectionDoc)
    THEN Fail(db, "active_proposal", 409)
    ELSE
        LET currentMessageCount == OrZero(connectionDoc, "messageCount")
            proposalMessageText == ProposalMessageText(proposalDetails)
            db1 == UpsertInbox(db, connectionId,
                    [message |-> proposalMessageText, senderId |-> currentUserId,
                     messageType |-> "date_proposal", is_image |-> Null,
                     imageUrl |-> Null])
            db2 == CreateMessage(db1,
                    [connectionId |-> connectionId, senderId |-> currentUserId,
                     messageType |-> "date_proposal", message |-> proposalMessageText,
                     is_image |-> "false", imageUrl |-> Null])
            db3 == UpdateConnection(db2, connectionId,
                    [messageCount |-> currentMessageCount + 1])
            db4 == UpdateConnection(db3, connectionId,
                    [dateProposalStatus |-> "proposed",
                     dateProposalDate |-> proposalDetails.date,
                     dateProposalPlace |-> proposalDetails.place,
                     dateProposalProposerId |-> currentUserId,
                     dateProposalLastActionBy |-> currentUserId])
        IN  Ok(db4)

\* connectionDoc.dateProposalLastActionBy &&
\* connectionDoc.dateProposalLastActionBy.$id === currentUserId
MutIsOwnLastAction(connectionDoc, currentUserId) ==
    OrElse(connectionDoc, "dateProposalProposerId", Null) = currentUserId
IsOwnLastAction(connectionDoc, currentUserId) ==
    OrElse(connectionDoc, "dateProposalLastActionBy", Null) = currentUserId

\* updateData of respondToDateProposal, per case of the switch.
MutResponseKeepsProposer(currentUserId, responseType, newDetails) ==
    IF responseType = "accept"
    THEN [dateProposalStatus |-> "accepted", dateProposalLastActionBy |-> currentUserId]
    ELSE IF responseType = "reject"
    THEN [dateProposalStatus |-> "rejected", dateProposalDate |-> Null,
          dateProposalPlace |-> Null,
          dateProposalLastActionBy |-> currentUserId]
    ELSE [dateProposalStatus |-> "modified", dateProposalDate |-> newDetails.date,
          dateProposalPlace |-> newDetails.place,
          dateProposalLastActionBy |-> currentUserId]
MutResponseUpdateData(currentUserId, responseType, newDetails) ==
    IF responseType = "accept"
    THEN [dateProposalStatus |-> "accepted", dateProposalLastActionBy |-> currentUserId]
    ELSE IF responseType = "reject"
    THEN [dateProposalStatus |-> "rejected", dateProposalDate |-> Null,
          dateProposalPlace |-> Null, dateProposalProposerId |-> Null,
          dateProposalLastActionBy |-> currentUserId]
    ELSE [dateProposalStatus |-> "modified", dateProposalDate |-> newDetails.date,
          dateProposalPlace |-> newDetails.place,
          dateProposalProposerId |-> currentUserId,
          dateProposalLastActionBy |-> currentUserId]
ResponseUpdateData(currentUserId, responseType, newDetails) ==
    IF responseType = "accept"
    THEN [dateProposalStatus |-> "accepted", dateProposalLastActionBy |-> currentUserId]
    ELSE IF responseType = "reject"
    THEN [dateProposalStatus |-> "rejected", dateProposalDate |-> Null,
          dateProposalPlace |-> Null, dateProposalProposerId |-> Null,
          dateProposalLastActionBy |-> currentUserId]
    ELSE [dateProposalStatus |-> "modified", dateProposalDate |-> newDetails.date,
          dateProposalPlace |-> newDetails.place,
          dateProposalLastActionBy |-> currentUserId]

\* responseMessageText of respondToDateProposal, per case of the switch.
ResponseMessageText(responseType, newDetails) ==
    IF responseType = "accept" THEN "Accepted the date proposal!"
    ELSE IF responseType = "reject" THEN "Rejected the date proposal."
    ELSE "Modified the date proposal to " \o newDetails.date \o " at "
            \o newDetails.place \o "."

respondToDateProposal(db, currentUserId, connectionId, responseType, newDetails) ==
    LET connectionDoc == db.connections[connectionId] IN
    IF NotActiveChatOf(connectionDoc, currentUserId)
    THEN Fail(db, "unauthorized", 403)
    ELSE IF ~ProposalActive(connectionDoc)
    THEN Fail(db, "no_active_proposal", 400)
    ELSE IF IsOwnLastAction(connectionDoc, currentUserId)
    THEN Fail(db, "own_last_action", 403)
    ELSE IF MessageLimitReached(connectionDoc)
    THEN Fail(db, "message_limit", 403)
    ELSE IF responseType = "modify" /\ (newDetails.date = Empty \/ newDetails.place = Empty)
    THEN Fail(db, "modify_details_required", 400)
    ELSE IF responseType \notin {"accept", "reject", "modify"}
    THEN Fail(db, "invalid_response_type", 400)
    ELSE
        LET currentMessageCount == OrZero(connectionDoc, "messageCount")
            db1 == CreateMessage(db,
                    [connectionId |-> connectionId, senderId |-> currentUserId,
                     messageType |-> "date_response",
                     message |-> ResponseMessageText(responseType, newDetails),
                     is_image |-> "false", imageUrl |-> Null])
            db2 == UpdateConnection(db1, connectionId,
                    [messageCount |-> currentMessageCount + 1])
            db3 == UpdateConnection(db2, connectionId,
                    ResponseUpdateData(currentUserId, responseType, newDetails))
        IN  Ok(db3)

\* ------------------------------------------------------------ profileService.js
\* const PAGE_SIZE = 25
PAGE_SIZE == 25

\* The order in which a list query returns the documents of a per-user collection:
\* their creation order, the order of user registration.
UserIds == <<"u1", "u2", "u3">>

\* The users who register after them, in the order of their registration; they hold
\* documents in the crowded world only.
Crowd == [i \in 1..CrowdSize |-> "c" \o ToString(i)]
Registered == UserIds \o Crowd

\* The elements of a sequence.
Range(s) == {s[i] : i \in DOMAIN s}

\* The smaller of two numbers.
Min(a, b) == IF a < b THEN a ELSE b

\* Query.offset(offset), Query.limit(limit) applied to the matching documents.
Page(docs, offset, limit) ==
    SubSeq(docs, offset + 1, Min(Len(docs), offset + limit))

\* utils/haversine: great-circle distance in km between two points, symmetric and
\* zero for identical points.  Coordinates are in tenths of a degree; the value is
\* rounded up to whole km, which leaves its comparison with a whole number of km
\* unchanged.  The points of the model are (0, 0), (0, 0.1) and (10, 10).
haversine(lat1, lon1, lat2, lon2) ==
    LET a == <<lat1, lon1>>
        b == <<lat2, lon2>>
    IN  IF a = b THEN 0
        ELSE IF {a, b} = {<<0, 0>>, <<0, 1>>} THEN 12
        ELSE IF {a, b} = {<<0, 0>>, <<100, 100>>} THEN 1569
        ELSE 1561

\* One listDocuments call whose query holds a membership filter, equal(attribute, ids).
Lookup(collection, ids) == [collection |-> collection, ids |-> ids]

\* What a discovery call hands back: the store, the profiles, and the membership
\* lookups it issued.
Found(db, profiles, queries) ==
    [db |-> db, ok |-> TRUE, err |-> "none", code |-> 0, visible |-> FALSE,
     profiles |-> profiles, queries |-> queries]
Failed(db, err, code, queries) ==
    [db |-> db, ok |-> FALSE, err |-> err, code |-> code, visible |-> FALSE,
     profiles |-> <<>>, queries |-> queries]

\* viewedUserIds: the who of every HasShown row of the user.
MutViewedUserIds(db, userId) ==
    {db.hasShown[i].who :
        i \in {j \in DOMAIN db.hasShown :
                    db.hasShown[j].user = userId /\ ~db.hasShown[j].is_interested}}
ViewedUserIds(db, userId) ==
    {db.hasShown[i].who : i \in {j \in DOMAIN db.hasShown : db.hasShown[j].user = userId}}

\* !preference.max_distance_km || distance <= preference.max_distance_km
WithinDistance(preference, distance) ==
    \/ "max_distance_km" \notin DOMAIN preference
    \/ preference.max_distance_km = 0
    \/ distance <= preference.max_distance_km

\* !settings || !settings.isIncognito
NotIncognito(db, userId) ==
    userId \notin DOMAIN db.settings \/ ~db.settings[userId].isIncognito

\* The age, gender and hobby tests of the final filtering loop.
MutMatchesPreference(preference, bio) ==
    /\ ~(bio.age < preference.min_age \/ bio.age > preference.max_age)
    /\ ~("preferred_gender" \in DOMAIN preference
            /\ bio.gender # preference.preferred_gender)
MatchesPreference(preference, bio) ==
    /\ ~(bio.age < preference.min_age \/ bio.age > preference.max_age)
    /\ ~("preferred_gender" \in DOMAIN preference
            /\ bio.gender # preference.preferred_gender)
    /\ ~(preference.preferred_hobbies # {}
            /\ bio.hobbies \cap preference.preferred_hobbies = {})

\* The ids of the Hobbies collection.
HobbyIds == {"h1", "h2"}

\* The profile object built for a candidate.
Profile(db, userId, location) ==
    [userId |-> userId,
     location |-> location,
     hobbies |-> db.biodata[userId].hobbies \cap HobbyIds,
     languages |-> db.biodata[userId].languages,
     settings |-> IF userId \in DOMAIN db.settings THEN db.settings[userId]
                  ELSE [isIncognito |-> FALSE, isHideName |-> FALSE]]

\* The has-shown update: for each profile sent, a row is created unless one exists.
RECURSIVE MarkShown(_, _, _)
MarkShown(db, userId, profiles) ==
    IF Len(profiles) = 0 THEN db
    ELSE
        LET who == Head(profiles).userId
            db1 == IF ~HasShownRow(db.hasShown, userId, who)
                   THEN CreateHasShown(db,
                            [user |-> userId, who |-> who,
                             is_ignore |-> FALSE, is_interested |-> FALSE])
                   ELSE db
        IN  MarkShown(db1, userId, Tail(profiles))

\* The language lookup, made when some document names a language.
LanguageLookup(db, userIds) ==
    LET uniqueLanguageIds == UNION {db.biodata[u].languages : u \in Range(userIds)}
    IN  IF uniqueLanguageIds # {} THEN <<Lookup("languages", uniqueLanguageIds)>> ELSE <<>>

getNextBatchProfiles(db, userId, page) ==
    LET offset == page * PAGE_SIZE
        viewedUserIds == ViewedUserIds(db, userId)
    IN
    IF userId \notin DOMAIN db.preferences THEN Found(db, <<>>, <<>>)
    ELSE IF userId \notin DOMAIN db.locations
    THEN Failed(db, "location_not_found", 0, <<>>)
    ELSE
        LET preference == db.preferences[userId]
            current == db.locations[userId]
            allOtherLocations ==
                SelectSeq(Registered,
                    LAMBDA u : u # userId /\ u \in DOMAIN db.locations)
            nearbyAndUnseenUserIds ==
                SelectSeq(allOtherLocations,
                    LAMBDA u :
                        /\ u \notin viewedUserIds
                        /\ WithinDistance(preference,
                                haversine(current.latitude, current.longitude,
                                          db.locations[u].latitude,
                                          db.locations[u].longitude)))
            settingsQuery == <<Lookup("settings", Range(nearbyAndUnseenUserIds))>>
            nonIncognitoUserIds ==
                SelectSeq(nearbyAndUnseenUserIds, LAMBDA u : NotIncognito(db, u))
            biodataQuery ==
                Append(settingsQuery, Lookup("biodata", Range(nonIncognitoUserIds)))
            biodataDocs ==
                Page(SelectSeq(Registered,
                        LAMBDA u : u \in Range(nonIncognitoUserIds)
                                    /\ u \in DOMAIN db.biodata),
                     offset, PAGE_SIZE * 2)
            enrichment ==
                biodataQuery
                    \o <<Lookup("prompts", Range(biodataDocs)),
                         Lookup("images", Range(biodataDocs))>>
                    \o LanguageLookup(db, biodataDocs)
            matching ==
                SelectSeq(biodataDocs,
                    LAMBDA u : MatchesPreference(preference, db.biodata[u]))
            kept == SubSeq(matching, 1, Min(Len(matching), PAGE_SIZE))
            filteredProfiles ==
                [i \in DOMAIN kept |-> Profile(db, kept[i], db.locations[kept[i]])]
        IN
        IF Len(nearbyAndUnseenUserIds) = 0 THEN Found(db, <<>>, <<>>)
        ELSE IF Len(nonIncognitoUserIds) = 0 THEN Found(db, <<>>, settingsQuery)
        ELSE IF Len(biodataDocs) = 0 THEN Found(db, <<>>, biodataQuery)
        ELSE Found(MarkShown(db, userId, filteredProfiles), filteredProfiles, enrichment)

\* connectedUserIds: the candidates with a Connection to or from the user.
MutConnectedUserIds(db, currentUserId, candidateUserIds) ==
    {u \in candidateUserIds :
        \E i \in DOMAIN db.connections :
            db.connections[i].senderId = currentUserId /\ db.connections[i].receiverId = u}
ConnectedUserIds(db, currentUserId, candidateUserIds) ==
    {u \in candidateUserIds :
        \E i \in DOMAIN db.connections :
            \/ db.connections[i].senderId = currentUserId /\ db.connections[i].receiverId = u
            \/ db.connections[i].receiverId = currentUserId /\ db.connections[i].senderId = u}

\* completedUserIds: equal('user', ids), equal('isAllCompleted', true)
CompletedUserIds(db, eligibleUserIds) ==
    {u \in eligibleUserIds : u \in DOMAIN db.completion /\ db.completion[u].isAllCompleted}

\* shuffled is the order the Fisher-Yates shuffle with Math.random leaves the users
\* in; emptyAnswer is what the store answers to a membership filter without values:
\* no documents ("none") or an error ("error").
getRandomProfilesSimple(db, currentUserId, limit, shuffled, emptyAnswer) ==
    LET viewedUserIds == ViewedUserIds(db, currentUserId) IN
    IF currentUserId \notin DOMAIN db.biodata THEN Found(db, <<>>, <<>>)
    ELSE
        LET currentUserGender == db.biodata[currentUserId].gender
            allBiodataDocs ==
                {u \in DOMAIN db.biodata :
                    u # currentUserId /\ db.biodata[u].gender # currentUserGender}
            candidateUserIds == allBiodataDocs \ viewedUserIds
            connectionQueries ==
                <<Lookup("connections.receiverId", candidateUserIds),
                  Lookup("connections.senderId", candidateUserIds)>>
            unconnected ==
                candidateUserIds \ ConnectedUserIds(db, currentUserId, candidateUserIds)
            completionQuery ==
                Append(connectionQueries, Lookup("completion", unconnected))
            completed == CompletedUserIds(db, unconnected)
            settingsQuery == Append(completionQuery, Lookup("settings", completed))
            eligible == {u \in completed : NotIncognito(db, u)}
            eligibleBiodataDocs == SelectSeq(shuffled, LAMBDA u : u \in eligible)
            selectedBiodataDocs ==
                SubSeq(eligibleBiodataDocs, 1, Min(Len(eligibleBiodataDocs), limit))
            selectedUserIds == Range(selectedBiodataDocs)
            hobbyIds == UNION {db.biodata[u].hobbies : u \in selectedUserIds}
            enrichment ==
                settingsQuery
                    \o <<Lookup("prompts", selectedUserIds),
                         Lookup("locations", selectedUserIds),
                         Lookup("images", selectedUserIds)>>
                    \o LanguageLookup(db, selectedBiodataDocs)
                    \o <<Lookup("hobbies", hobbyIds)>>
            profiles ==
                [i \in DOMAIN selectedBiodataDocs |->
                    Profile(db, selectedBiodataDocs[i],
                        IF selectedBiodataDocs[i] \in DOMAIN db.locations
                        THEN db.locations[selectedBiodataDocs[i]] ELSE Null)]
        IN
        IF candidateUserIds = {} THEN Found(db, <<>>, <<>>)
        ELSE IF unconnected = {} THEN Found(db, <<>>, connectionQueries)
        ELSE IF completed = {} THEN Found(db, <<>>, completionQuery)
        ELSE IF eligible = {} THEN Found(db, <<>>, settingsQuery)
        ELSE IF Len(selectedBiodataDocs) = 0 THEN Found(db, <<>>, settingsQuery)
        ELSE IF hobbyIds = {} /\ emptyAnswer = "error"
        THEN Failed(db, "invalid_query", 400, enrichment)
        ELSE Found(MarkShown(db, currentUserId, profiles), profiles, enrichment)

\* ------------------------------------------------------------ notificationService.js: inbox
\* equal('receiverId', receiverUserId), equal('status', 'pending'), orderAsc('$createdAt')
PendingReceived(db, receiverUserId) ==
    SelectSeq([c \in 1..Len(db.connections) |-> c],
              LAMBDA c : /\ db.connections[c].receiverId = receiverUserId
                         /\ db.connections[c].status = "pending")

\* getActiveReceivedInvitations: the first MAX_ACTIVE_RECEIVED_INVITATIONS of them,
\* one entry each.
getActiveReceivedInvitations(db, receiverUserId) ==
    LET conns == Page(PendingReceived(db, receiverUserId), 0,
                      MAX_ACTIVE_RECEIVED_INVITATIONS)
    IN  [i \in 1..Len(conns) |->
            [connectionId |-> conns[i],
             senderId |-> db.connections[conns[i]].senderId,
             status |-> db.connections[conns[i]].status]]

\* ------------------------------------------------------------ routes.js
\* The response of a handler: the request, the service's outcome (ok, err, code) and
\* the HTTP status sent.
Response(op, caller, cid, arg, body, out, http) ==
    [op |-> op, caller |-> caller, cid |-> cid, arg |-> arg, body |-> body,
     ok |-> out.ok, err |-> out.err, code |-> out.code, visible |-> out.visible,
     http |-> http, num |-> 0, profiles |-> <<>>, queries |-> <<>>,
     rows |-> <<>>]

\* A request rejected by the handler's own validation: no service call is made.
Rejected(op, caller, cid, arg, body) ==
    [op |-> op, caller |-> caller, cid |-> cid, arg |-> arg, body |-> body,
     ok |-> FALSE, err |-> "validation", code |-> 0, visible |-> FALSE, http |-> 400,
     num |-> 0, profiles |-> <<>>, queries |-> <<>>,
     rows |-> <<>>]

\* const code = err.code === 403 ? 403 : 500
Only403(code) == IF code = 403 THEN 403 ELSE 500

\* error.code || 500
CodeOr500(code) == IF code # 0 THEN code ELSE 500

\* The Message rows a behaviour may hold: MaxNewMessages in a new chat, and the rows
\* up to the limit (and one past it) in a long one.
WithinBounds(db) ==
    /\ \/ Len(db.messages) <= MaxNewMessages
       \/ /\ Len(db.messages) >= MESSAGE_LIMIT - ChatHeadroom
          /\ Len(db.messages) <= MESSAGE_LIMIT + 1

\* No request is in flight: the handlers below run from start to end in one step.
NoCalls == <<>>

\* The collections after the store calls made in the step.
Written(db) ==
    /\ users' = db.users
    /\ connections' = db.connections
    /\ hasShown' = db.hasShown
    /\ messages' = db.messages
    /\ inbox' = db.inbox
    /\ notifications' = db.notifications
    /\ pushes' = db.pushes
    /\ biodata' = db.biodata
    /\ locations' = db.locations
    /\ preferences' = db.preferences
    /\ settings' = db.settings
    /\ completion' = db.completion

\* The store a handler leaves becomes the next state's.
CommitStore(db) ==
    /\ WithinBounds(db)
    /\ Written(db)
    /\ calls' = calls

\* A handler that created no Connection.
Commit(db) ==
    /\ CommitStore(db)
    /\ sentVisible' = sentVisible

\* POST /api/v1/notification/invitations/send
SendInvitationRoute(senderUserId, receiverUserId, notifOk) ==
    IF receiverUserId = Empty
    THEN /\ Commit(Store)
         /\ last' = Rejected("send", senderUserId, 0, receiverUserId, NoDetails)
    ELSE
        \E result \in {sendInvitation(Store, senderUserId, receiverUserId)} :
        \E notified \in {createNotification(result.db, receiverUserId, senderUserId,
                                           "invite", notifOk)} :
        LET cid == IF result.ok THEN Len(result.db.connections) ELSE 0
        IN  IF ~result.ok
            THEN /\ Commit(result.db)
                 /\ last' = Response("send", senderUserId, cid, receiverUserId, NoDetails,
                                     result, Only403(result.code))
            ELSE IF ~notified.ok
            THEN /\ CommitStore(notified.db)
                 /\ sentVisible' = Append(sentVisible, result.visible)
                 /\ last' = Response("send", senderUserId, cid, receiverUserId, NoDetails,
                                     notified, Only403(notified.code))
            ELSE /\ CommitStore(notified.db)
                 /\ sentVisible' = Append(sentVisible, result.visible)
                 /\ last' = Response("send", senderUserId, cid, receiverUserId, NoDetails,
                                     result, 200)

\* POST /api/v1/notification/invitations/remove-sent
RemoveSentInvitationRoute(senderUserId, connectionId) ==
    \E result \in {removeSentInvitation(Store, senderUserId, connectionId)} :
    /\ Commit(result.db)
    /\ last' = Response("cancel", senderUserId, connectionId, Empty, NoDetails,
                        result,
                        IF result.ok THEN 200 ELSE 500)

\* POST /api/v1/notification/invitations/decline
DeclineInvitationRoute(receiverUserId, connectionId) ==
    \E result \in {declineInvitation(Store, receiverUserId, connectionId)} :
    /\ Commit(result.db)
    /\ last' = Response("decline", receiverUserId, connectionId, Empty, NoDetails,
                        result,
                        IF result.ok THEN 200 ELSE Only403(result.code))

\* POST /api/v1/notification/invitations/accept
AcceptInvitationRoute(receiverUserId, connectionId) ==
    \E result \in {acceptInvitation(Store, receiverUserId, connectionId)} :
    /\ Commit(result.db)
    /\ last' = Response("accept", receiverUserId, connectionId, Empty, NoDetails,
                        result,
                        IF result.ok THEN 200 ELSE Only403(result.code))

\* POST /api/v1/chats/remove
RemoveChatRoute(currentUserId, connectionId) ==
    \E result \in {removeChat(Store, currentUserId, connectionId)} :
    /\ Commit(result.db)
    /\ last' = Response("removeChat", currentUserId, connectionId, Empty, NoDetails,
                        result,
                        IF result.ok THEN 200 ELSE CodeOr500(result.code))

\* POST /api/v1/chats/:connectionId/messages
SendMessageRoute(currentUserId, connectionId, content, messageType) ==
    IF content = Empty \/ messageType \notin {"text", "image"}
    THEN /\ Commit(Store)
         /\ last' = Rejected("sendMessage", currentUserId, connectionId, messageType, NoDetails)
    ELSE
        \E result \in {sendMessage(Store, currentUserId, connectionId, content, messageType)} :
        /\ Commit(result.db)
        /\ last' = Response("sendMessage", currentUserId, connectionId, messageType,
                            NoDetails, result, IF result.ok THEN 200 ELSE CodeOr500(result.code))

\* POST /api/v1/chats/:connectionId/propose-date
ProposeDateRoute(currentUserId, connectionId, date, place) ==
    IF date = Empty \/ place = Empty
    THEN /\ Commit(Store)
         /\ last' = Rejected("proposeDate", currentUserId, connectionId, Empty,
                          [date |-> date, place |-> place])
    ELSE
        \E result \in {proposeDate(Store, currentUserId, connectionId,
                                    [date |-> date, place |-> place])} :
        /\ Commit(result.db)
        /\ last' = Response("proposeDate", currentUserId, connectionId, Empty,
                            [date |-> date, place |-> place], result, IF result.ok THEN 200 ELSE CodeOr500(result.code))

\* POST /api/v1/chats/:connectionId/respond-date
RespondDateRoute(currentUserId, connectionId, responseType, newDetails) ==
    IF \/ responseType \notin {"accept", "reject", "modify"}
       \/ (responseType = "modify" /\ (newDetails.date = Empty \/ newDetails.place = Empty))
    THEN /\ Commit(Store)
         /\ last' = Rejected("respondDate", currentUserId, connectionId, responseType,
                          newDetails)
    ELSE
        \E result \in {respondToDateProposal(Store, currentUserId, connectionId,
                                              responseType, newDetails)} :
        /\ Commit(result.db)
        /\ last' = Response("respondDate", currentUserId, connectionId, responseType,
                            newDetails, result, IF result.ok THEN 200 ELSE CodeOr500(result.code))

\* The response of a discovery handler: the page or limit asked for, the profiles
\* sent and the membership lookups the service issued.
DiscoveryResponse(op, caller, num, out, http) ==
    [op |-> op, caller |-> caller, cid |-> 0, arg |-> Empty, body |-> NoDetails,
     ok |-> out.ok, err |-> out.err, code |-> out.code, visible |-> FALSE,
     http |-> http, num |-> num, profiles |-> out.profiles, queries |-> out.queries,
     rows |-> <<>>]

\* GET /api/v1/explore/next-batch
GetNextBatchRoute(userId, page) ==
    \E result \in {getNextBatchProfiles(Store, userId, page)} :
    /\ Commit(result.db)
    /\ last' = DiscoveryResponse("nextBatch", userId, page, result,
                                 IF result.ok THEN 200 ELSE 500)

\* GET /api/v1/profiles/random-simple
GetRandomProfilesRoute(currentUserId, limit, shuffled, emptyAnswer) ==
    IF limit <= 0
    THEN /\ Commit(Store)
         /\ last' = [Rejected("randomSimple", currentUserId, 0, Empty, NoDetails)
                        EXCEPT !.num = limit]
    ELSE
        \E result \in {getRandomProfilesSimple(Store, currentUserId, limit, shuffled,
                                                emptyAnswer)} :
        /\ Commit(result.db)
        /\ last' = DiscoveryResponse("randomSimple", currentUserId, limit, result,
                                     IF result.ok THEN 200 ELSE CodeOr500(result.code))

\* ------------------------------------------------------------ requests
ConnectionIds == DOMAIN connections

\* A party invites the other one, or leaves the receiver out.  Invitations are sent
\* while fewer than MaxConns Connections exist; the request of a sender who is at the
\* quota, which must create none, is sent at any time.  The two parties being
\* interchangeable, the first invitation is u1's.
SendInvitation ==
    \E s \in Parties : \E r \in (Parties \ {s}) \cup {Empty} :
        /\ Len(connections) = 0 => s = "u1"
        /\ \/ Len(connections) < MaxConns
           \/ OrZero(users[s], "activeSentInvitationCount") >= MAX_ACTIVE_SENT_INVITATIONS
        /\ SendInvitationRoute(s, r, TRUE)

RemoveSentInvitation ==
    \E u \in Users, c \in ConnectionIds : RemoveSentInvitationRoute(u, c)

DeclineInvitation ==
    \E u \in Users, c \in ConnectionIds : DeclineInvitationRoute(u, c)

AcceptInvitation ==
    \E u \in Users, c \in ConnectionIds : AcceptInvitationRoute(u, c)

RemoveChat ==
    \E u \in Users, c \in ConnectionIds : RemoveChatRoute(u, c)

\* The chat requests.  A well-formed body is sent by every user; the bodies the
\* handler's validation rejects, which it does before it looks at the caller, are
\* sent by u1.
SendMessage ==
    \/ \E u \in Users, c \in ConnectionIds, messageType \in {"text", "image"} :
            SendMessageRoute(u, c, "hello", messageType)
    \/ \E c \in ConnectionIds, body \in {<<Empty, "text">>, <<"hello", "video">>} :
            SendMessageRoute("u1", c, body[1], body[2])

ProposeDate ==
    \/ \E u \in Users, c \in ConnectionIds :
            ProposeDateRoute(u, c, ProposalDetails.date, ProposalDetails.place)
    \/ \E c \in ConnectionIds :
            ProposeDateRoute("u1", c, NoDetails.date, NoDetails.place)

\* newDetails is read for "modify" only; the other responses are sent without it.
RespondDate ==
    \/ \E u \in Users, c \in ConnectionIds, responseType \in {"accept", "reject"} :
            RespondDateRoute(u, c, responseType, NoDetails)
    \/ \E u \in Users, c \in ConnectionIds :
            RespondDateRoute(u, c, "modify", ModifiedDetails)
    \/ \E c \in ConnectionIds,
          body \in {<<"maybe", NoDetails>>, <<"modify", NoDetails>>} :
            RespondDateRoute("u1", c, body[1], body[2])

\* The orders a shuffle can leave the users in.
Shuffles == {s \in [DOMAIN UserIds -> Range(UserIds)] : Range(s) = Range(UserIds)}

\* A party asks for the next batch, at any page up to MaxPage.
GetNextBatchProfiles ==
    \E u \in Parties, page \in 0..MaxPage : GetNextBatchRoute(u, page)

\* A party asks for random profiles with a limit up to MaxLimit; the limit the
\* handler's validation rejects is sent by u1.
GetRandomProfilesSimple ==
    \/ \E u \in Parties, limit \in 1..MaxLimit, shuffled \in Shuffles,
          emptyAnswer \in {"none", "error"} :
            GetRandomProfilesRoute(u, limit, shuffled, emptyAnswer)
    \/ GetRandomProfilesRoute("u1", 0, UserIds, "none")

\* ------------------------------------------------------------ initial states
NoRequest ==
    [op |-> "none", caller |-> Empty, cid |-> 0, arg |-> Empty, body |-> NoDetails,
     ok |-> FALSE, err |-> "none", code |-> 0, visible |-> FALSE, http |-> 0,
     num |-> 0, profiles |-> <<>>, queries |-> <<>>,
     rows |-> <<>>]

\* A User document as the service reads it: the counters absent (a new user) or set.
NewUserDoc == [name |-> "n"]
UserDoc(sent, received, chats) ==
    [name |-> "n", activeSentInvitationCount |-> sent,
     activeReceivedInvitationCount |-> received, activeChatCount |-> chats]

\* No user has filled in a profile: the discovery collections are empty.
NoProfiles ==
    /\ biodata = <<>>
    /\ locations = <<>>
    /\ preferences = <<>>
    /\ settings = <<>>
    /\ completion = <<>>

\* The store before any invitation: users only, with counters absent or 0.
Init ==
    /\ users = [u \in Users |-> IF u = "u1" THEN NewUserDoc ELSE UserDoc(0, 0, 0)]
    /\ connections = <<>>
    /\ hasShown = <<>>
    /\ messages = <<>>
    /\ inbox = <<>>
    /\ notifications = <<>>
    /\ pushes = <<>>
    /\ NoProfiles
    /\ sentVisible = <<>>
    /\ calls = NoCalls
    /\ last = NoRequest

\* The same store with counters that drifted: the counters of the parties start
\* absent, at any value from -MaxDrift up to 0, or with an activeChatCount that
\* drifted up to MAX_ACTIVE_CHATS or past it.
DriftedDocs ==
    {NewUserDoc} \cup {UserDoc(v, v, v) : v \in (0 - MaxDrift)..0}
        \cup {UserDoc(0, 0, MAX_ACTIVE_CHATS), UserDoc(0, 0, MAX_ACTIVE_CHATS + 1)}

InitDrift ==
    /\ \E doc \in DriftedDocs :
         users = [u \in Users |-> IF u \in Parties THEN doc ELSE NewUserDoc]
    /\ connections = <<>>
    /\ hasShown = <<>>
    /\ messages = <<>>
    /\ inbox = <<>>
    /\ notifications = <<>>
    /\ pushes = <<>>
    /\ NoProfiles
    /\ sentVisible = <<>>
    /\ calls = NoCalls
    /\ last = NoRequest

\* The connection lifecycle: invitations and chat removal.
Next ==
    \/ SendInvitation
    \/ RemoveSentInvitation
    \/ DeclineInvitation
    \/ AcceptInvitation
    \/ RemoveChat

Spec == Init /\ [][Next]_vars

\* The lifecycle on drifted counters, with one Connection fewer.
NextDrift ==
    \/ SendInvitation /\ Len(connections') < MaxConns
    \/ RemoveSentInvitation
    \/ DeclineInvitation
    \/ AcceptInvitation
    \/ RemoveChat

SpecDrift == InitDrift /\ [][NextDrift]_vars

\* The lifecycle when the store may refuse the write of the Notifications row.
SendInvitationUnreliable ==
    \E s \in Parties : \E r \in Parties \ {s}, notifOk \in BOOLEAN :
        /\ Len(connections) = 0 => s = "u1"
        /\ Len(connections) < MaxConns
        /\ SendInvitationRoute(s, r, notifOk)

NextUnreliable ==
    \/ SendInvitationUnreliable
    \/ RemoveSentInvitation
    \/ DeclineInvitation
    \/ AcceptInvitation

SpecUnreliable == Init /\ [][NextUnreliable]_vars

\* ------------------------------------------------------------ chat sessions
\* An empty store holding the users only.
EmptyStore ==
    [users |-> [u \in Users |-> IF u = "u1" THEN NewUserDoc ELSE UserDoc(0, 0, 0)],
     connections |-> <<>>, hasShown |-> <<>>, messages |-> <<>>, inbox |-> <<>>,
     notifications |-> <<>>, pushes |-> <<>>, biodata |-> <<>>, locations |-> <<>>,
     preferences |-> <<>>, settings |-> <<>>, completion |-> <<>>]

\* The store after u1 invited u2 and u2 accepted: Connection 1 is chat_active.
AcceptedStore ==
    LET sent == sendInvitation(EmptyStore, "u1", "u2").db
        notified == createNotification(sent, "u2", "u1", "invite", TRUE).db
    IN  acceptInvitation(notified, "u2", 1).db

\* The store of a long chat on Connection 1: u1 proposed a date, u2 gave the response,
\* and text messages of u1 followed, n Message rows in all and messageCount = n.
LongChat(n, responseType) ==
    LET proposed == proposeDate(AcceptedStore, "u1", 1, ProposalDetails).db
        responded == respondToDateProposal(proposed, "u2", 1, responseType, NoDetails).db
        texted == sendMessage(responded, "u1", 1, "hello", "text").db
    IN  [texted EXCEPT
            !.messages = [i \in 1..n |->
                            texted.messages[IF i < Len(texted.messages) THEN i
                                            ELSE Len(texted.messages)]],
            !.connections = [texted.connections EXCEPT ![1] =
                                Merge(texted.connections[1], [messageCount |-> n])]]

\* A chat just accepted, or one that is ChatHeadroom messages short of the limit and
\* whose date proposal was accepted or rejected.
InitChat ==
    /\ \E db \in {AcceptedStore}
                \cup {LongChat(MESSAGE_LIMIT - ChatHeadroom, r) : r \in {"accept", "reject"}} :
            /\ users = db.users
            /\ connections = db.connections
            /\ hasShown = db.hasShown
            /\ messages = db.messages
            /\ inbox = db.inbox
            /\ notifications = db.notifications
            /\ pushes = db.pushes
    /\ NoProfiles
    /\ sentVisible = <<TRUE>>
    /\ calls = NoCalls
    /\ last = NoRequest

\* The chat session: messages, date proposals and chat removal.
NextChat ==
    \/ SendMessage
    \/ ProposeDate
    \/ RespondDate
    \/ RemoveChat

SpecChat == InitChat /\ [][NextChat]_vars

\* ------------------------------------------------------------ discovery
\* Location documents: coordinates in tenths of a degree.
Origin == [latitude |-> 0, longitude |-> 0]
Near == [latitude |-> 0, longitude |-> 1]
Far == [latitude |-> 100, longitude |-> 100]

\* A Biodata document.
Bio(gender, age, hobbies, languages) ==
    [gender |-> gender, age |-> age, hobbies |-> hobbies, languages |-> languages]

\* What one user has filled in: for each collection, the user's document or none.
Persona(bio, location, setting, status) ==
    [biodata |-> bio, locations |-> location, settings |-> setting,
     completion |-> status]

Done == [isAllCompleted |-> TRUE]
NotDone == [isAllCompleted |-> FALSE]
Incognito == [isIncognito |-> TRUE, isHideName |-> FALSE]
HideName == [isIncognito |-> FALSE, isHideName |-> TRUE]

\* The user who asks first: a man of 30 at the origin with a completed profile.
Requester ==
    Persona(<<Bio("m", 30, {"h1"}, {"en"})>>, <<Origin>>, <<>>, <<Done>>)

\* The other users: a woman nearby with a completed profile; one far away without
\* hobbies or languages; a man nearby; a woman whose profile is not completed; one of
\* 40 with another hobby and no CompletionStatus; one in incognito at the origin; one
\* with a Location only; one without a Location; a woman nearby with another hobby;
\* a woman nearby of 40.
Candidates ==
    {Persona(<<Bio("f", 30, {"h1"}, {"en"})>>, <<Near>>, <<>>, <<Done>>),
     Persona(<<Bio("f", 30, {}, {})>>, <<Far>>, <<HideName>>, <<Done>>),
     Persona(<<Bio("m", 30, {"h1"}, {"en"})>>, <<Near>>, <<>>, <<Done>>),
     Persona(<<Bio("f", 30, {"h1"}, {})>>, <<Near>>, <<>>, <<NotDone>>),
     Persona(<<Bio("f", 40, {"h2"}, {})>>, <<Near>>, <<>>, <<>>),
     Persona(<<Bio("f", 30, {"h2"}, {"en"})>>, <<Origin>>, <<Incognito>>, <<Done>>),
     Persona(<<>>, <<Near>>, <<>>, <<>>),
     Persona(<<Bio("f", 30, {}, {})>>, <<>>, <<>>, <<Done>>),
     Persona(<<Bio("f", 30, {"h2"}, {})>>, <<Near>>, <<>>, <<Done>>),
     Persona(<<Bio("f", 40, {"h1"}, {"en"})>>, <<Near>>, <<>>, <<Done>>)}

\* The third user: nearby, far away, or in incognito.
Bystanders ==
    {Persona(<<Bio("f", 30, {"h1"}, {"en"})>>, <<Near>>, <<>>, <<Done>>),
     Persona(<<Bio("f", 30, {}, {})>>, <<Far>>, <<HideName>>, <<Done>>),
     Persona(<<Bio("f", 30, {"h2"}, {"en"})>>, <<Origin>>, <<Incognito>>, <<Done>>)}

\* The Preference of the first user: none; ages only; everything set, within 50 km;
\* a distance of 0; a distance of 5 km.
FullPreference ==
    <<[min_age |-> 25, max_age |-> 35, preferred_gender |-> "f",
       max_distance_km |-> 50, preferred_hobbies |-> {"h1"}]>>
RequesterPreferences ==
    {<<>>,
     <<[min_age |-> 25, max_age |-> 35, preferred_hobbies |-> {}]>>,
     FullPreference,
     <<[min_age |-> 25, max_age |-> 35, max_distance_km |-> 0,
        preferred_hobbies |-> {}]>>,
     <<[min_age |-> 18, max_age |-> 99, max_distance_km |-> 5,
        preferred_hobbies |-> {}]>>}

\* The Preference of the other users: any adult within 50 km.
CandidatePreference ==
    <<[min_age |-> 18, max_age |-> 99, max_distance_km |-> 50, preferred_hobbies |-> {}]>>

\* A per-user collection: the documents of the users who have one.
Collection(docs) ==
    [u \in {v \in Users : Len(docs[v]) = 1} |-> docs[u][1]]

\* The profile collections of three users and the Preference of the first.
World(first, second, third, preference) ==
    LET persona == [u \in Users |->
                        IF u = "u1" THEN first ELSE IF u = "u2" THEN second ELSE third]
    IN  [biodata |-> Collection([u \in Users |-> persona[u].biodata]),
         locations |-> Collection([u \in Users |-> persona[u].locations]),
         settings |-> Collection([u \in Users |-> persona[u].settings]),
         completion |-> Collection([u \in Users |-> persona[u].completion]),
         preferences |-> Collection([u \in Users |->
                            IF u = "u1" THEN preference ELSE CandidatePreference])]

\* The populations: every Preference of the first user with a woman nearby and one
\* far away; every second and third user under the full Preference; a first user
\* without a Location, and one without Biodata.
Worlds ==
    LET nearby == Persona(<<Bio("f", 30, {"h1"}, {"en"})>>, <<Near>>, <<>>, <<Done>>)
        distant == Persona(<<Bio("f", 30, {}, {})>>, <<Far>>, <<HideName>>, <<Done>>)
    IN  {World(Requester, nearby, distant, p) : p \in RequesterPreferences}
            \cup {World(Requester, c, b, FullPreference) : c \in Candidates, b \in Bystanders}
            \cup {World([Requester EXCEPT !.locations = <<>>], nearby, distant,
                        FullPreference),
                  World([Requester EXCEPT !.biodata = <<>>], nearby, distant,
                        FullPreference)}

\* The store after sender invited receiver and the route wrote the notification.
Invited(db, sender, receiver) ==
    createNotification(sendInvitation(db, sender, receiver).db, receiver, sender,
                       "invite", TRUE).db

\* The stores the first two users can have brought about with one invitation: none
\* sent, or one sent in either direction and left pending, declined, cancelled,
\* accepted, or accepted and the chat removed by either party; or the second user
\* invited the first while an invitation of the third kept the first at the
\* received-invitation limit.
Histories ==
    {EmptyStore, Invited(Invited(EmptyStore, "u3", "u1"), "u2", "u1")}
        \cup UNION {
            LET pending == Invited(EmptyStore, pair[1], pair[2])
                accepted == acceptInvitation(pending, pair[2], 1).db
            IN  {pending,
                 declineInvitation(pending, pair[2], 1).db,
                 removeSentInvitation(pending, pair[1], 1).db,
                 accepted,
                 removeChat(accepted, pair[1], 1).db,
                 removeChat(accepted, pair[2], 1).db}
            : pair \in {<<"u1", "u2">>, <<"u2", "u1">>}}

\* Registered users with profiles: every population before any invitation, and the
\* populations whose second user is nearby or far away after each history.  In these
\* histories an invitation was visible to its receiver exactly when it left a
\* HasShown row.
InitDiscovery ==
    /\ \E world \in Worlds, db \in Histories :
        /\ \/ db = EmptyStore
           \/ /\ "u2" \in DOMAIN world.completion
              /\ world.completion["u2"].isAllCompleted
              /\ "u2" \in DOMAIN world.locations
              /\ {"u1", "u2"} \subseteq DOMAIN world.biodata
              /\ world.biodata["u1"].gender # world.biodata["u2"].gender
              /\ "u1" \in DOMAIN world.locations
              /\ "u1" \in DOMAIN world.preferences
              /\ world.preferences["u1"] = FullPreference[1]
        /\ biodata = world.biodata
        /\ locations = world.locations
        /\ settings = world.settings
        /\ completion = world.completion
        /\ preferences = world.preferences
        /\ users = db.users
        /\ connections = db.connections
        /\ hasShown = db.hasShown
        /\ messages = db.messages
        /\ inbox = db.inbox
        /\ notifications = db.notifications
        /\ pushes = db.pushes
        /\ sentVisible = [i \in DOMAIN db.connections |->
                            HasShownRow(db.hasShown, db.connections[i].receiverId,
                                        db.connections[i].senderId)]
    /\ calls = NoCalls
    /\ last = NoRequest

\* Discovery calls.
NextDiscovery ==
    \/ GetNextBatchProfiles
    \/ GetRandomProfilesSimple

SpecDiscovery == InitDiscovery /\ [][NextDiscovery]_vars

\* ------------------------------------------------------------ a crowded neighbourhood
\* The first user, with every preference set, among CrowdSize women nearby who all
\* share the preferred hobby and have completed profiles: the first k to register
\* are 40, past the preferred ages, the others are 30.  The second and the third
\* user have filled in nothing.
CrowdWorld(k) ==
    LET ids == {"u1"} \cup Range(Crowd)
        late(u) == \E i \in 1..k : Crowd[i] = u
    IN  [biodata |-> [u \in ids |->
                        IF u = "u1" THEN Requester.biodata[1]
                        ELSE Bio("f", IF late(u) THEN 40 ELSE 30, {"h1"}, {"en"})],
         locations |-> [u \in ids |-> IF u = "u1" THEN Origin ELSE Near],
         settings |-> <<>>,
         completion |-> [u \in ids |-> Done],
         preferences |-> [u \in {"u1"} |-> FullPreference[1]]]

InitCrowd ==
    /\ \E k \in 0..CrowdSize :
        /\ biodata = CrowdWorld(k).biodata
        /\ locations = CrowdWorld(k).locations
        /\ settings = CrowdWorld(k).settings
        /\ completion = CrowdWorld(k).completion
        /\ preferences = CrowdWorld(k).preferences
    /\ users = EmptyStore.users
    /\ connections = <<>>
    /\ hasShown = <<>>
    /\ messages = <<>>
    /\ inbox = <<>>
    /\ notifications = <<>>
    /\ pushes = <<>>
    /\ sentVisible = <<>>
    /\ calls = NoCalls
    /\ last = NoRequest

\* Next-batch requests of the first two users, at any page up to MaxPage.
SpecCrowd == InitCrowd /\ [][GetNextBatchProfiles]_vars

\* ------------------------------------------------------------ chat requests at any status
\* The chat requests on the Connections one invitation leaves behind: pending,
\* declined, cancelled, accepted, or removed by either party.
InitHistory ==
    /\ \E db \in Histories \ {EmptyStore} :
        /\ users = db.users
        /\ connections = db.connections
        /\ hasShown = db.hasShown
        /\ messages = db.messages
        /\ inbox = db.inbox
        /\ notifications = db.notifications
        /\ pushes = db.pushes
        /\ sentVisible = [i \in DOMAIN db.connections |->
                            HasShownRow(db.hasShown, db.connections[i].receiverId,
                                        db.connections[i].senderId)]
    /\ NoProfiles
    /\ calls = NoCalls
    /\ last = NoRequest

SpecHistory == InitHistory /\ [][NextChat]_vars

\* ------------------------------------------------------------ chat reads
\* getChatState: the guard, then the state of the Connection with the partner's
\* name (the partner lookups are in try blocks and cannot fail the call).
getChatState(db, currentUserId, connectionId) ==
    LET connectionDoc == db.connections[connectionId] IN
    IF NotActiveChatOf(connectionDoc, currentUserId)
    THEN Merge(Fail(db, "unauthorized", 403), [rows |-> <<>>])
    ELSE
        LET partnerId == IF connectionDoc.senderId = currentUserId
                         THEN connectionDoc.receiverId ELSE connectionDoc.senderId
            status == OrElse(connectionDoc, "dateProposalStatus", "none")
            shown == status \in {"proposed", "modified", "accepted"}
        IN  Merge(Ok(db), [rows |->
                <<[connectionId |-> connectionId,
                   currentMessageCount |-> OrZero(connectionDoc, "messageCount"),
                   currentDateProposalStatus |-> status,
                   dateProposalDate |->
                        IF shown THEN OrElse(connectionDoc, "dateProposalDate", Null)
                        ELSE Null,
                   dateProposalPlace |->
                        IF shown THEN OrElse(connectionDoc, "dateProposalPlace", Null)
                        ELSE Null,
                   dateProposalProposerId |->
                        OrElse(connectionDoc, "dateProposalProposerId", Null),
                   dateProposalLastActionBy |->
                        OrElse(connectionDoc, "dateProposalLastActionBy", Null),
                   partnerId |-> partnerId,
                   partnerName |-> OrElse(db.users[partnerId], "name", "Unknown")]>>])

\* getChatMessages(connectionId): the Messages of the Connection in timestamp
\* order, 200 at most.  The function takes no user.
getChatMessages(db, connectionId) ==
    Page(SelectSeq(db.messages, LAMBDA row : row.connectionId = connectionId), 0, 200)

\* GET /api/v1/chats/:connectionId/chat-state
GetChatState ==
    \E u \in Users, c \in ConnectionIds :
    \E result \in {getChatState(Store, u, c)} :
        /\ Commit(result.db)
        /\ last' = [Response("chatState", u, c, Empty, NoDetails, result,
                             IF result.ok THEN 200 ELSE CodeOr500(result.code))
                        EXCEPT !.rows = result.rows]

\* GET /api/v1/chats/:connectionId/messages
GetChatMessages ==
    \E u \in Users, c \in ConnectionIds :
        /\ Commit(Store)
        /\ last' = [Response("chatMessages", u, c, Empty, NoDetails, Ok(Store), 200)
                        EXCEPT !.rows = getChatMessages(Store, c)]

\* The chat requests and the two reads, on the same Connections.
SpecTranscript ==
    InitHistory /\ [][NextChat \/ GetChatState \/ GetChatMessages]_vars

\* ------------------------------------------------------------ a receiver at quota
\* The store after u1 invited u2 twice: the second invitation found u2 at the
\* received-invitation quota.
FirstInvitation == sendInvitation(EmptyStore, "u1", "u2")
SecondInvitation == sendInvitation(Invited(EmptyStore, "u1", "u2"), "u1", "u2")
BacklogStore == Invited(Invited(EmptyStore, "u1", "u2"), "u1", "u2")

InitBacklog ==
    /\ users = BacklogStore.users
    /\ connections = BacklogStore.connections
    /\ hasShown = BacklogStore.hasShown
    /\ messages = BacklogStore.messages
    /\ inbox = BacklogStore.inbox
    /\ notifications = BacklogStore.notifications
    /\ pushes = BacklogStore.pushes
    /\ NoProfiles
    /\ sentVisible = <<FirstInvitation.visible, SecondInvitation.visible>>
    /\ calls = NoCalls
    /\ last = NoRequest

\* One more invitation, of a party to any other user.
SendThirdInvitation ==
    \E s \in Parties : \E r \in Users \ {s} :
        /\ Len(connections) < MaxConns + 1
        /\ SendInvitationRoute(s, r, TRUE)

NextBacklog ==
    \/ SendThirdInvitation
    \/ RemoveSentInvitation
    \/ DeclineInvitation
    \/ AcceptInvitation
    \/ RemoveChat

SpecBacklog == InitBacklog /\ [][NextBacklog]_vars

\* ------------------------------------------------------------ requests in flight
\* The handlers are async functions: every await of a store call is a point at
\* which a store call of another request can run.  A request in flight is its
\* handler, its arguments, the await it stands at (pc), the documents it has read
\* (mem) and, once it has ended, its result.
MaxCalls == 2

Call(op, caller, cid, arg) ==
    [op |-> op, caller |-> caller, cid |-> cid, arg |-> arg, pc |-> "start",
     mem |-> <<>>, ok |-> FALSE, err |-> "none", code |-> 0]

\* const name = await ...: the local now holds what the store call returned.
Put(mem, name, value) == (name :> value) @@ mem

\* A request arrives.
Receive(op, caller, cid, arg) ==
    /\ Len(calls) < MaxCalls
    /\ calls' = Append(calls, Call(op, caller, cid, arg))
    /\ Written(Store)
    /\ UNCHANGED <<sentVisible, last>>

\* Request p made one store call and stands at its next await.
Resume(p, db, pc, mem) ==
    /\ Written(db)
    /\ calls' = [calls EXCEPT ![p].pc = pc, ![p].mem = mem]
    /\ UNCHANGED <<sentVisible, last>>

\* Request p threw: nothing the handler wrote before is undone.
Throw(p, err, code) ==
    /\ Written(Store)
    /\ calls' = [calls EXCEPT ![p].pc = "done", ![p].err = err, ![p].code = code]
    /\ UNCHANGED <<sentVisible, last>>

\* The handler's return after its last store call.
Return ==
    \E p \in DOMAIN calls :
        /\ calls[p].pc = "return"
        /\ Written(Store)
        /\ calls' = [calls EXCEPT ![p].pc = "done", ![p].ok = TRUE]
        /\ UNCHANGED <<sentVisible, last>>

\* listDocuments(HasShown, [equal('user', user), equal('who', who)]): the $ids found.
HasShownIds(db, user, who) ==
    {i \in DOMAIN db.hasShown : db.hasShown[i].user = user /\ db.hasShown[i].who = who}

\* updateDocument(HasShown, doc.$id, patch)
UpdateHasShown(db, id, patch) ==
    [db EXCEPT !.hasShown = [db.hasShown EXCEPT ![id] = Merge(db.hasShown[id], patch)]]

\* The has-shown sweep of a handler: the list is one store call and each update of
\* the loop over its documents is another.
SweepHasShown(p, user, who, patch, pcList, pcUpdate, pcNext) ==
    \/ /\ calls[p].pc = pcList
       /\ LET ids == HasShownIds(Store, user, who)
          IN  Resume(p, Store, IF ids = {} THEN pcNext ELSE pcUpdate,
                     Put(calls[p].mem, "docs", ids))
    \/ /\ calls[p].pc = pcUpdate
       /\ LET id == CHOOSE i \in calls[p].mem.docs :
                        \A j \in calls[p].mem.docs : i <= j
              rest == calls[p].mem.docs \ {id}
          IN  Resume(p, UpdateHasShown(Store, id, patch),
                     IF rest = {} THEN pcNext ELSE pcUpdate,
                     Put(calls[p].mem, "docs", rest))

\* The counter decrements shared by declineInvitation and removeSentInvitation: each
\* User document is read and then written.
DecrementBoth(p, senderUserId, receiverUserId, pcNext) ==
    LET m == calls[p].mem IN
    \/ /\ calls[p].pc = "getSender"
       /\ Resume(p, Store, "updateSender", Put(m, "senderUserDoc", users[senderUserId]))
    \/ /\ calls[p].pc = "updateSender"
       /\ Resume(p, UpdateUser(Store, senderUserId,
                    [activeSentInvitationCount |->
                        FloorDecrement(OrZero(m.senderUserDoc, "activeSentInvitationCount"))]),
                 "getReceiver", m)
    \/ /\ calls[p].pc = "getReceiver"
       /\ Resume(p, Store, "updateReceiver",
                 Put(m, "receiverUserDoc", users[receiverUserId]))
    \/ /\ calls[p].pc = "updateReceiver"
       /\ Resume(p, UpdateUser(Store, receiverUserId,
                    [activeReceivedInvitationCount |->
                        FloorDecrement(OrZero(m.receiverUserDoc,
                                              "activeReceivedInvitationCount"))]),
                 pcNext, m)

\* declineInvitation, one store call at a time.
DeclineInvitationStep ==
    \E p \in DOMAIN calls :
        LET receiverUserId == calls[p].caller
            connectionId == calls[p].cid
            m == calls[p].mem
        IN
        /\ calls[p].op = "decline"
        /\ \/ /\ calls[p].pc = "start"
              /\ LET connectionDoc == connections[connectionId] IN
                 IF NotPendingForReceiver(connectionDoc, receiverUserId)
                 THEN Throw(p, "unauthorized", 403)
                 ELSE Resume(p, Store, "updateConnection",
                             Put(m, "connectionDoc", connectionDoc))
           \/ /\ calls[p].pc = "updateConnection"
              /\ Resume(p, UpdateConnection(Store, connectionId, [status |-> "declined"]),
                        "getSender", m)
           \/ DecrementBoth(p, m.connectionDoc.senderId, receiverUserId, "listSender")
           \/ SweepHasShown(p, m.connectionDoc.senderId, receiverUserId,
                            [is_ignore |-> TRUE, is_interested |-> FALSE],
                            "listSender", "updateSenderRows", "listReceiver")
           \/ SweepHasShown(p, receiverUserId, m.connectionDoc.senderId,
                            [is_ignore |-> TRUE, is_interested |-> FALSE],
                            "listReceiver", "updateReceiverRows", "return")

\* removeSentInvitation, one store call at a time.
RemoveSentInvitationStep ==
    \E p \in DOMAIN calls :
        LET senderUserId == calls[p].caller
            connectionId == calls[p].cid
            m == calls[p].mem
        IN
        /\ calls[p].op = "cancel"
        /\ \/ /\ calls[p].pc = "start"
              /\ LET connectionDoc == connections[connectionId] IN
                 IF NotPendingForSender(connectionDoc, senderUserId)
                 THEN Throw(p, "unauthorized", 403)
                 ELSE Resume(p, Store, "updateConnection",
                             Put(m, "connectionDoc", connectionDoc))
           \/ /\ calls[p].pc = "updateConnection"
              /\ Resume(p, UpdateConnection(Store, connectionId, [status |-> "cancelled"]),
                        "getSender", m)
           \/ DecrementBoth(p, senderUserId, m.connectionDoc.receiverId, "listSender")
           \/ SweepHasShown(p, senderUserId, m.connectionDoc.receiverId,
                            [is_ignore |-> TRUE, is_interested |-> FALSE],
                            "listSender", "updateSenderRows", "return")

\* acceptInvitation, one store call at a time.  The receiver's User document is
\* read once, before the Connection is written, and both of the receiver's counters
\* are computed from that read.
AcceptInvitationStep ==
    \E p \in DOMAIN calls :
        LET receiverUserId == calls[p].caller
            connectionId == calls[p].cid
            m == calls[p].mem
        IN
        /\ calls[p].op = "accept"
        /\ \/ /\ calls[p].pc = "start"
              /\ LET connectionDoc == connections[connectionId] IN
                 IF NotPendingForReceiver(connectionDoc, receiverUserId)
                 THEN Throw(p, "unauthorized", 403)
                 ELSE Resume(p, Store, "getReceiver",
                             Put(m, "connectionDoc", connectionDoc))
           \/ /\ calls[p].pc = "getReceiver"
              /\ LET receiverUserDoc == users[receiverUserId] IN
                 IF ReceiverAtChatLimit(receiverUserDoc)
                 THEN Throw(p, "chat_quota", 403)
                 ELSE Resume(p, Store, "updateConnection",
                             Put(m, "receiverUserDoc", receiverUserDoc))
           \/ /\ calls[p].pc = "updateConnection"
              /\ Resume(p, UpdateConnection(Store, connectionId, AcceptedConnectionPatch),
                        "getSender", m)
           \/ /\ calls[p].pc = "getSender"
              /\ Resume(p, Store, "updateSender",
                        Put(m, "senderUserDoc", users[m.connectionDoc.senderId]))
           \/ /\ calls[p].pc = "updateSender"
              /\ Resume(p, UpdateUser(Store, m.connectionDoc.senderId,
                            [activeSentInvitationCount |->
                                FloorDecrement(OrZero(m.senderUserDoc,
                                                      "activeSentInvitationCount"))]),
                        "updateReceiver", m)
           \/ /\ calls[p].pc = "updateReceiver"
              /\ Resume(p, UpdateUser(Store, receiverUserId,
                            [activeReceivedInvitationCount |->
                                FloorDecrement(OrZero(m.receiverUserDoc,
                                                      "activeReceivedInvitationCount"))]),
                        "updateSenderChats", m)
           \/ /\ calls[p].pc = "updateSenderChats"
              /\ Resume(p, UpdateUser(Store, m.connectionDoc.senderId,
                            [activeChatCount |->
                                OrZero(m.senderUserDoc, "activeChatCount") + 1]),
                        "updateReceiverChats", m)
           \/ /\ calls[p].pc = "updateReceiverChats"
              /\ Resume(p, UpdateUser(Store, receiverUserId,
                            [activeChatCount |->
                                OrZero(m.receiverUserDoc, "activeChatCount") + 1]),
                        "listSender", m)
           \/ SweepHasShown(p, m.connectionDoc.senderId, receiverUserId,
                            [is_ignore |-> FALSE, is_interested |-> TRUE],
                            "listSender", "updateSenderRows", "listReceiver")
           \/ SweepHasShown(p, receiverUserId, m.connectionDoc.senderId,
                            [is_ignore |-> FALSE, is_interested |-> TRUE],
                            "listReceiver", "updateReceiverRows", "return")

\* One pending invitation of u1 to u2, each of them with an invitation of the other
\* on record so that every has-shown sweep finds a row; accept, decline and cancel
\* requests for it arrive from either party at any time.
PendingStore ==
    LET old == removeSentInvitation(Invited(EmptyStore, "u2", "u1"), "u2", 1).db
    IN  Invited(old, "u1", "u2")

InitRace ==
    /\ users = PendingStore.users
    /\ connections = PendingStore.connections
    /\ hasShown = PendingStore.hasShown
    /\ messages = PendingStore.messages
    /\ inbox = PendingStore.inbox
    /\ notifications = PendingStore.notifications
    /\ pushes = PendingStore.pushes
    /\ NoProfiles
    /\ sentVisible = <<TRUE, TRUE>>
    /\ calls = NoCalls
    /\ last = NoRequest

SpecRace ==
    /\ InitRace
    /\ [][
        \/ \E op \in {"accept", "decline", "cancel"}, u \in Parties :
                Receive(op, u, Len(PendingStore.connections), Empty)
        \/ AcceptInvitationStep
        \/ DeclineInvitationStep
        \/ RemoveSentInvitationStep
        \/ Return
       ]_vars

\* ------------------------------------------------------------ chat requests in flight
\* The inbox upsert of sendMessage and proposeDate, one store call at a time: the
\* list, the create when the list found nothing (a create that finds the document
\* already there fails and the failure is caught), and the update.
UpsertInboxSteps(p, connectionId, projection, pcNext) ==
    \/ /\ calls[p].pc = "listInbox"
       /\ Resume(p, Store,
                 IF connectionId \in DOMAIN inbox THEN "updateInbox" ELSE "createInbox",
                 calls[p].mem)
    \/ /\ calls[p].pc = "createInbox"
       /\ Resume(p, IF connectionId \in DOMAIN inbox THEN Store
                    ELSE UpsertInbox(Store, connectionId, <<>>),
                 "updateInbox", calls[p].mem)
    \/ /\ calls[p].pc = "updateInbox"
       /\ Resume(p, UpsertInbox(Store, connectionId, projection), pcNext, calls[p].mem)

\* updateDocument(Connections, connectionId, { messageCount: currentMessageCount + 1 })
\* with the count of the Connection the request read at its start.
UpdateCount(p, pcNext) ==
    /\ calls[p].pc = "updateCount"
    /\ Resume(p, UpdateConnection(Store, calls[p].cid,
                    [messageCount |-> OrZero(calls[p].mem.connectionDoc, "messageCount") + 1]),
              pcNext, calls[p].mem)

\* sendMessage, one store call at a time.
SendMessageStep ==
    \E p \in DOMAIN calls :
        LET currentUserId == calls[p].caller
            connectionId == calls[p].cid
            newMessageData == NewMessageData(currentUserId, connectionId,
                                             calls[p].arg.content, calls[p].arg.messageType)
        IN
        /\ calls[p].op = "message"
        /\ \/ /\ calls[p].pc = "start"
              /\ LET connectionDoc == connections[connectionId] IN
                 IF NotActiveChatOf(connectionDoc, currentUserId)
                 THEN Throw(p, "unauthorized", 403)
                 ELSE IF MessageLimitReached(connectionDoc)
                 THEN Throw(p, "message_limit", 403)
                 ELSE IF calls[p].arg.messageType \notin {"text", "image"}
                 THEN Throw(p, "invalid_message_type", 400)
                 ELSE Resume(p, Store, "createMessage",
                             Put(calls[p].mem, "connectionDoc", connectionDoc))
           \/ /\ calls[p].pc = "createMessage"
              /\ Resume(p, CreateMessage(Store, newMessageData), "listInbox", calls[p].mem)
           \/ UpsertInboxSteps(p, connectionId,
                    [message |-> newMessageData.message,
                     senderId |-> newMessageData.senderId,
                     messageType |-> newMessageData.messageType,
                     is_image |-> newMessageData.is_image,
                     imageUrl |-> newMessageData.imageUrl],
                    "updateCount")
           \/ UpdateCount(p, "return")

\* proposeDate, one store call at a time.
ProposeDateStep ==
    \E p \in DOMAIN calls :
        LET currentUserId == calls[p].caller
            connectionId == calls[p].cid
            proposalDetails == calls[p].arg
            proposalMessageText == ProposalMessageText(proposalDetails)
        IN
        /\ calls[p].op = "propose"
        /\ \/ /\ calls[p].pc = "start"
              /\ LET connectionDoc == connections[connectionId] IN
                 IF NotActiveChatOf(connectionDoc, currentUserId)
                 THEN Throw(p, "unauthorized", 403)
                 ELSE IF MessageLimitReached(connectionDoc)
                 THEN Throw(p, "message_limit", 403)
                 ELSE IF ProposalActive(connectionDoc)
                 THEN Throw(p, "active_proposal", 409)
                 ELSE Resume(p, Store, "listInbox",
                             Put(calls[p].mem, "connectionDoc", connectionDoc))
           \/ UpsertInboxSteps(p, connectionId,
                    [message |-> proposalMessageText, senderId |-> currentUserId,
                     messageType |-> "date_proposal", is_image |-> Null,
                     imageUrl |-> Null],
                    "createMessage")
           \/ /\ calls[p].pc = "createMessage"
              /\ Resume(p, CreateMessage(Store,
                            [connectionId |-> connectionId, senderId |-> currentUserId,
                             messageType |-> "date_proposal",
                             message |-> proposalMessageText,
                             is_image |-> "false", imageUrl |-> Null]),
                        "updateCount", calls[p].mem)
           \/ UpdateCount(p, "updateProposal")
           \/ /\ calls[p].pc = "updateProposal"
              /\ Resume(p, UpdateConnection(Store, connectionId,
                            [dateProposalStatus |-> "proposed",
                             dateProposalDate |-> proposalDetails.date,
                             dateProposalPlace |-> proposalDetails.place,
                             dateProposalProposerId |-> currentUserId,
                             dateProposalLastActionBy |-> currentUserId]),
                        "return", calls[p].mem)

\* respondToDateProposal, one store call at a time.
RespondToDateProposalStep ==
    \E p \in DOMAIN calls :
        LET currentUserId == calls[p].caller
            connectionId == calls[p].cid
            responseType == calls[p].arg.responseType
            newDetails == calls[p].arg.newDetails
        IN
        /\ calls[p].op = "respond"
        /\ \/ /\ calls[p].pc = "start"
              /\ LET connectionDoc == connections[connectionId] IN
                 IF NotActiveChatOf(connectionDoc, currentUserId)
                 THEN Throw(p, "unauthorized", 403)
                 ELSE IF ~ProposalActive(connectionDoc)
                 THEN Throw(p, "no_active_proposal", 400)
                 ELSE IF IsOwnLastAction(connectionDoc, currentUserId)
                 THEN Throw(p, "own_last_action", 403)
                 ELSE IF MessageLimitReached(connectionDoc)
                 THEN Throw(p, "message_limit", 403)
                 ELSE IF /\ responseType = "modify"
                         /\ (newDetails.date = Empty \/ newDetails.place = Empty)
                 THEN Throw(p, "modify_details_required", 400)
                 ELSE IF responseType \notin {"accept", "reject", "modify"}
                 THEN Throw(p, "invalid_response_type", 400)
                 ELSE Resume(p, Store, "createMessage",
                             Put(calls[p].mem, "connectionDoc", connectionDoc))
           \/ /\ calls[p].pc = "createMessage"
              /\ Resume(p, CreateMessage(Store,
                            [connectionId |-> connectionId, senderId |-> currentUserId,
                             messageType |-> "date_response",
                             message |-> ResponseMessageText(responseType, newDetails),
                             is_image |-> "false", imageUrl |-> Null]),
                        "updateCount", calls[p].mem)
           \/ UpdateCount(p, "updateProposal")
           \/ /\ calls[p].pc = "updateProposal"
              /\ Resume(p, UpdateConnection(Store, connectionId,
                            ResponseUpdateData(currentUserId, responseType, newDetails)),
                        "return", calls[p].mem)

\* Connection 1 is chat_active: just accepted, or one message short of the limit
\* with the last proposal rejected or modified by u2.  Messages, proposals and
\* responses of either party arrive at any time.
InitChatRace ==
    /\ \E db \in {AcceptedStore, LongChat(MESSAGE_LIMIT - 1, "reject"),
                  LongChat(MESSAGE_LIMIT - 1, "modify")} :
        /\ users = db.users
        /\ connections = db.connections
        /\ hasShown = db.hasShown
        /\ messages = db.messages
        /\ inbox = db.inbox
        /\ notifications = db.notifications
        /\ pushes = db.pushes
    /\ NoProfiles
    /\ sentVisible = <<TRUE>>
    /\ calls = NoCalls
    /\ last = NoRequest

SpecChatRace ==
    /\ InitChatRace
    /\ [][
        \/ \E u \in Parties :
                Receive("message", u, 1, [content |-> "hello", messageType |-> "text"])
        \/ \E u \in Parties : Receive("propose", u, 1, ProposalDetails)
        \/ \E u \in Parties, responseType \in {"accept", "reject"} :
                Receive("respond", u, 1,
                        [responseType |-> responseType, newDetails |-> NoDetails])
        \/ SendMessageStep
        \/ ProposeDateStep
        \/ RespondToDateProposalStep
        \/ Return
       ]_vars

\* ------------------------------------------------------------ invitations in flight
\* An id no Users document has.
Stranger == "u9"

\* (doc.field || 0) + 1
MutIncremented(doc, field) == OrZero(doc, field) + 2
Incremented(doc, field) == OrZero(doc, field) + 1

\* The send route, one store call at a time: sendInvitation and, after it returned,
\* createNotification.  The store is a remote service and any call to it can fail;
\* a failure inside the push block is caught there, any other one ends the request.
SendInvitationStep ==
    \E p \in DOMAIN calls :
        LET senderUserId == calls[p].caller
            receiverUserId == calls[p].arg
            m == calls[p].mem
        IN
        /\ calls[p].op = "send"
        /\ \/ /\ calls[p].pc = "start"
              /\ IF senderUserId \notin DOMAIN users
                 THEN Throw(p, "sender_not_found", 0)
                 ELSE IF SenderAtLimit(users[senderUserId])
                 THEN Throw(p, "sent_quota", 403)
                 ELSE Resume(p, Store, "createConnection",
                             Put(m, "sender", users[senderUserId]))
           \/ /\ calls[p].pc = "createConnection"
              /\ Resume(p, CreateConnection(Store,
                            [senderId |-> senderUserId, receiverId |-> receiverUserId,
                             status |-> "pending"]),
                        "updateSender", m)
           \/ /\ calls[p].pc = "updateSender"
              /\ Resume(p, UpdateUser(Store, senderUserId,
                            [activeSentInvitationCount |->
                                Incremented(m.sender, "activeSentInvitationCount")]),
                        "getReceiver", m)
           \/ /\ calls[p].pc = "getReceiver"
              /\ IF receiverUserId \notin DOMAIN users
                 THEN Throw(p, "receiver_not_found", 0)
                 ELSE Resume(p, Store,
                             IF IsReceiverUnderLimit(users[receiverUserId])
                             THEN "updateReceiver" ELSE "createNotification",
                             Put(m, "receiver", users[receiverUserId]))
           \/ /\ calls[p].pc = "updateReceiver"
              /\ Resume(p, UpdateUser(Store, receiverUserId,
                            [activeReceivedInvitationCount |->
                                Incremented(m.receiver, "activeReceivedInvitationCount")]),
                        "createHasShown", m)
           \/ /\ calls[p].pc = "createHasShown"
              /\ Resume(p, CreateHasShown(Store,
                            [user |-> receiverUserId, who |-> senderUserId,
                             is_ignore |-> FALSE, is_interested |-> TRUE]),
                        "getSenderName", m)
           \/ /\ calls[p].pc = "getSenderName"
              /\ Resume(p, Store, "createPush", m)
           \/ /\ calls[p].pc = "createPush"
              /\ Resume(p, PushInvitation(Store, senderUserId, receiverUserId),
                        "createNotification", m)
           \/ /\ calls[p].pc = "createNotification"
              /\ Resume(p, createNotification(Store, receiverUserId, senderUserId,
                                              "invite", TRUE).db,
                        "return", m)
           \/ /\ calls[p].pc \in {"start", "createConnection", "updateSender",
                                  "getReceiver", "updateReceiver", "createHasShown"}
              /\ Throw(p, "store_failed", 0)
           \/ /\ calls[p].pc \in {"getSenderName", "createPush"}
              /\ Resume(p, Store, "createNotification", m)
           \/ /\ calls[p].pc = "createNotification"
              /\ Throw(p, "notification_failed", 0)

\* No invitation was sent yet, or u1 has sent two and is at the sent-invitation
\* limit.  Invitations of the first two users and of a caller without a Users
\* document arrive at any time, addressed to the other of the two or to an id
\* without a Users document.
InitSendRace ==
    /\ \E db \in {EmptyStore, BacklogStore} :
        /\ users = db.users
        /\ connections = db.connections
        /\ hasShown = db.hasShown
        /\ messages = db.messages
        /\ inbox = db.inbox
        /\ notifications = db.notifications
        /\ pushes = db.pushes
        /\ sentVisible = [i \in DOMAIN db.connections |->
                            <<FirstInvitation.visible, SecondInvitation.visible>>[i]]
    /\ NoProfiles
    /\ calls = NoCalls
    /\ last = NoRequest

SpecSendRace ==
    /\ InitSendRace
    /\ [][
        \/ \E s \in Parties \cup {Stranger} : \E r \in (Parties \ {s}) \cup {Stranger} :
                Receive("send", s, 0, r)
        \/ SendInvitationStep
        \/ Return
       ]_vars

\* ------------------------------------------------------------ discovery in flight
\* getNextBatchProfiles and getRandomProfilesSimple, one store call at a time: the
\* list of the caller's HasShown rows, the reads of the profile collections (which no
\* discovery request writes) up to the batch, and then, for each profile of the
\* batch, the list of the HasShown rows of the pair and, when the list was empty,
\* the create.
DiscoveryStep ==
    \E p \in DOMAIN calls :
        LET userId == calls[p].caller
            m == calls[p].mem
            next(todo) == IF Len(todo) = 0 THEN "return" ELSE "listShown"
        IN
        /\ calls[p].op \in {"nextBatch", "randomSimple"}
        /\ \/ /\ calls[p].pc = "start"
              /\ Resume(p, Store, "collect", Put(m, "viewedDocs", hasShown))
           \/ /\ calls[p].pc = "collect"
              /\ \E shuffled \in Shuffles, emptyAnswer \in {"none", "error"} :
                    LET seen == [Store EXCEPT !.hasShown = m.viewedDocs]
                        result ==
                            IF calls[p].op = "nextBatch"
                            THEN getNextBatchProfiles(seen, userId, calls[p].arg)
                            ELSE getRandomProfilesSimple(seen, userId, calls[p].arg,
                                                         shuffled, emptyAnswer)
                    IN  IF ~result.ok
                        THEN Throw(p, result.err, result.code)
                        ELSE Resume(p, Store, next(result.profiles),
                                    Put(Put(m, "profiles", result.profiles),
                                        "todo", result.profiles))
           \/ /\ calls[p].pc = "listShown"
              /\ IF HasShownRow(hasShown, userId, Head(m.todo).userId)
                 THEN Resume(p, Store, next(Tail(m.todo)), Put(m, "todo", Tail(m.todo)))
                 ELSE Resume(p, Store, "createShown", m)
           \/ /\ calls[p].pc = "createShown"
              /\ Resume(p, CreateHasShown(Store,
                            [user |-> userId, who |-> Head(m.todo).userId,
                             is_ignore |-> FALSE, is_interested |-> FALSE]),
                        next(Tail(m.todo)), Put(m, "todo", Tail(m.todo)))

\* The discovery worlds before any invitation; the first two users ask for the
\* first page of the next batch or for random profiles at any time.
InitDiscoveryRace ==
    /\ \E world \in Worlds :
        /\ biodata = world.biodata
        /\ locations = world.locations
        /\ settings = world.settings
        /\ completion = world.completion
        /\ preferences = world.preferences
    /\ users = EmptyStore.users
    /\ connections = <<>>
    /\ hasShown = <<>>
    /\ messages = <<>>
    /\ inbox = <<>>
    /\ notifications = <<>>
    /\ pushes = <<>>
    /\ sentVisible = <<>>
    /\ calls = NoCalls
    /\ last = NoRequest

SpecDiscoveryRace ==
    /\ InitDiscoveryRace
    /\ [][
        \/ \E u \in Parties : Receive("nextBatch", u, 0, 0)
        \/ \E u \in Parties, limit \in 1..MaxLimit : Receive("randomSimple", u, 0, limit)
        \/ DiscoveryStep
        \/ Return
       ]_vars

\* ------------------------------------------------------------ properties
CounterFields ==
    {"activeSentInvitationCount", "activeReceivedInvitationCount", "activeChatCount"}

\* No document of any collection changes in the step.
StoreUnchanged ==
    UNCHANGED <<users, connections, hasShown, messages, inbox, notifications, pushes,
                biodata, locations, preferences, settings, completion>>

\* The step handles a request that reached the service (the handler's own validation
\* let it through).
ServiceCalled(ops) == last'.op \in ops /\ last'.err # "validation"

IsParty(connectionDoc, user) ==
    connectionDoc.senderId = user \/ connectionDoc.receiverId = user

\* C1: in a sequential execution of sendInvitation, acceptInvitation,
\* declineInvitation, removeSentInvitation and removeChat, a Connection is created
\* pending and its status changes only along pending->declined (decline by the
\* receiver), pending->cancelled (cancel by the sender), pending->chat_active (accept
\* by the receiver), chat_active->chat_removed_by_sender (removeChat by the sender),
\* chat_active->chat_removed_by_receiver (removeChat by the receiver); a terminal
\* status never changes.
C1_EdgeAllowed(c) ==
    LET conn == connections[c]
        old == connections[c].status
        new == connections'[c].status
        by(op, user) == last'.op = op /\ last'.cid = c /\ last'.caller = user
    IN  \/ new = old
        \/ old = "pending" /\ new = "declined" /\ by("decline", conn.receiverId)
        \/ old = "pending" /\ new = "cancelled" /\ by("cancel", conn.senderId)
        \/ old = "pending" /\ new = "chat_active" /\ by("accept", conn.receiverId)
        \/ old = "chat_active" /\ new = "chat_removed_by_sender"
              /\ by("removeChat", conn.senderId)
        \/ old = "chat_active" /\ new = "chat_removed_by_receiver"
              /\ by("removeChat", conn.receiverId)

C1_StatusEdges ==
    [][/\ DOMAIN connections \subseteq DOMAIN connections'
       /\ \A c \in DOMAIN connections : C1_EdgeAllowed(c)
       /\ \A c \in (DOMAIN connections') \ (DOMAIN connections) :
            connections'[c].status = "pending"]_vars

\* A chat was removed by its receiver while another Connection ended declined or
\* cancelled: every edge has been taken.
C1_Witness ==
    /\ last.op = "removeChat" /\ last.ok
    /\ connections[last.cid].status = "chat_removed_by_receiver"
    /\ \E c \in DOMAIN connections : connections[c].status \in {"declined", "cancelled"}

\* C2: acceptInvitation, declineInvitation and removeSentInvitation called on a
\* Connection that is not pending, or by a caller who is not the expected party
\* (receiver for accept and decline, sender for cancel), fail with 403 and change no
\* document.
C2_NotPermitted(op, caller, c) ==
    \/ connections[c].status # "pending"
    \/ op \in {"accept", "decline"} /\ connections[c].receiverId # caller
    \/ op = "cancel" /\ connections[c].senderId # caller

C2_OnlyFromPending ==
    [][(/\ ServiceCalled({"accept", "decline", "cancel"})
        /\ C2_NotPermitted(last'.op, last'.caller, last'.cid))
       => (/\ ~last'.ok
           /\ last'.err = "unauthorized"
           /\ last'.code = 403
           /\ StoreUnchanged)]_vars

\* An accept, decline or cancel was refused on a Connection that had left pending.
C2_Witness ==
    /\ last.op \in {"accept", "decline", "cancel"}
    /\ last.code = 403 /\ last.err = "unauthorized"
    /\ connections[last.cid].status # "pending"
    /\ last.caller = (IF last.op = "cancel" THEN connections[last.cid].senderId
                      ELSE connections[last.cid].receiverId)

\* C5: a sendInvitation that passes the sender's quota creates a pending Connection
\* and adds 1 to the sender's activeSentInvitationCount; when the receiver's
\* activeReceivedInvitationCount equals MAX_ACTIVE_RECEIVED_INVITATIONS it returns
\* visibleToReceiver=false, leaves the receiver's counter alone and creates no HasShown
\* row; below the limit it returns visibleToReceiver=true, adds 1 to the receiver's
\* counter and creates HasShown(receiver, sender, is_ignore=false, is_interested=true);
\* visibleToReceiver is true exactly when the increment and the creation happened.
C5_SendEffect ==
    LET s == last'.caller
        r == last'.arg
        receivedBefore == OrZero(users[r], "activeReceivedInvitationCount")
        receivedAfter == OrZero(users'[r], "activeReceivedInvitationCount")
        row == [user |-> r, who |-> s, is_ignore |-> FALSE, is_interested |-> TRUE]
        incremented == receivedAfter = receivedBefore + 1
        rowCreated == hasShown' = Append(hasShown, row)
    IN  /\ connections' =
            Append(connections, [senderId |-> s, receiverId |-> r, status |-> "pending"])
        /\ OrZero(users'[s], "activeSentInvitationCount")
            = OrZero(users[s], "activeSentInvitationCount") + 1
        /\ receivedBefore = MAX_ACTIVE_RECEIVED_INVITATIONS
            => ~last'.visible /\ receivedAfter = receivedBefore /\ hasShown' = hasShown
        /\ receivedBefore < MAX_ACTIVE_RECEIVED_INVITATIONS
            => last'.visible /\ incremented /\ rowCreated
        /\ last'.visible <=> (incremented /\ rowCreated)

C5_SoftLimit ==
    [][(last'.op = "send" /\ last'.ok) => C5_SendEffect]_vars

\* An invitation was sent to a receiver at the quota: pending, not visible, no row.
C5_Witness ==
    /\ last.op = "send" /\ last.ok /\ ~last.visible
    /\ connections[last.cid].status = "pending"
    /\ users[last.arg].activeReceivedInvitationCount = MAX_ACTIVE_RECEIVED_INVITATIONS
    /\ Len(hasShown) < Len(connections)

\* C6: acceptInvitation by the receiver of a pending Connection whose activeChatCount
\* is MAX_ACTIVE_CHATS or more fails with 403; the Connection stays pending and no
\* User counter and no HasShown row changes.
C6_ChatQuota ==
    [][(/\ ServiceCalled({"accept"})
        /\ connections[last'.cid].status = "pending"
        /\ connections[last'.cid].receiverId = last'.caller
        /\ OrZero(users[last'.caller], "activeChatCount") >= MAX_ACTIVE_CHATS)
       => (/\ ~last'.ok
           /\ last'.err = "chat_quota"
           /\ last'.code = 403
           /\ connections'[last'.cid].status = "pending"
           /\ StoreUnchanged)]_vars

\* The receiver of a pending invitation, whose activeChatCount is MAX_ACTIVE_CHATS,
\* was refused for being at the chat quota.
C6_Witness ==
    /\ last.op = "accept" /\ last.err = "chat_quota" /\ last.http = 403
    /\ connections[last.cid].status = "pending"
    /\ connections[last.cid].receiverId = last.caller
    /\ users[last.caller].activeChatCount = MAX_ACTIVE_CHATS

\* C7: sendInvitation by a sender whose activeSentInvitationCount is not below
\* MAX_ACTIVE_SENT_INVITATIONS fails with 403 before any write: no Connection, no
\* counter change, no HasShown row, no push and no notification.
C7_SentQuota ==
    [][(/\ ServiceCalled({"send"})
        /\ OrZero(users[last'.caller], "activeSentInvitationCount")
            >= MAX_ACTIVE_SENT_INVITATIONS)
       => (/\ ~last'.ok
           /\ last'.err = "sent_quota"
           /\ last'.code = 403
           /\ last'.http = 403
           /\ StoreUnchanged)]_vars

\* A sender holding MAX_ACTIVE_SENT_INVITATIONS pending invitations was refused.
C7_Witness ==
    /\ last.op = "send" /\ last.err = "sent_quota" /\ last.http = 403
    /\ users[last.caller].activeSentInvitationCount = MAX_ACTIVE_SENT_INVITATIONS
    /\ Cardinality({c \in DOMAIN connections :
            connections[c].senderId = last.caller /\ connections[c].status = "pending"})
        = MAX_ACTIVE_SENT_INVITATIONS

\* C3: once a chat_active Connection's messageCount equals MESSAGE_LIMIT, a party's
\* sendMessage and proposeDate fail with the message-limit error (403), and
\* respondToDateProposal fails too: with 400 when no proposal is active, with 403 when
\* the caller made the last action, and with the message-limit error (403) otherwise;
\* none writes a Message row or changes messageCount, and messageCount never exceeds
\* MESSAGE_LIMIT.
C3_AtLimit ==
    /\ ServiceCalled({"sendMessage", "proposeDate", "respondDate"})
    /\ connections[last'.cid].status = "chat_active"
    /\ IsParty(connections[last'.cid], last'.caller)
    /\ OrZero(connections[last'.cid], "messageCount") = MESSAGE_LIMIT

C3_NothingWritten ==
    /\ ~last'.ok
    /\ messages' = messages
    /\ OrZero(connections'[last'.cid], "messageCount") = MESSAGE_LIMIT

C3_NeverPastLimit ==
    /\ \A c \in DOMAIN connections : OrZero(connections[c], "messageCount") <= MESSAGE_LIMIT
    /\ \A c \in DOMAIN connections' : OrZero(connections'[c], "messageCount") <= MESSAGE_LIMIT

C3_RespondError ==
    LET conn == connections[last'.cid] IN
    IF OrElse(conn, "dateProposalStatus", Null) \notin {"proposed", "modified"}
    THEN last'.err = "no_active_proposal" /\ last'.code = 400
    ELSE IF OrElse(conn, "dateProposalLastActionBy", Null) = last'.caller
    THEN last'.err = "own_last_action" /\ last'.code = 403
    ELSE last'.err = "message_limit" /\ last'.code = 403

C3_MessageLimit ==
    [][/\ C3_NeverPastLimit
       /\ C3_AtLimit =>
            /\ C3_NothingWritten
            /\ StoreUnchanged
            /\ last'.op \in {"sendMessage", "proposeDate"}
                => last'.err = "message_limit" /\ last'.code = 403
            /\ last'.op = "respondDate" => C3_RespondError]_vars

\* C3 as stated: at messageCount = MESSAGE_LIMIT all three operations fail with 403.
C3_AllFailWith403 ==
    [][/\ C3_NeverPastLimit
       /\ C3_AtLimit => (C3_NothingWritten /\ last'.code = 403)]_vars

\* A response to the other party's proposal was refused with the message-limit error
\* on a chat holding MESSAGE_LIMIT messages.
C3_Witness ==
    /\ last.op = "respondDate"
    /\ last.err = "message_limit" /\ last.http = 403
    /\ connections[last.cid].messageCount = MESSAGE_LIMIT
    /\ Len(messages) = MESSAGE_LIMIT

\* C4: whatever value a User counter starts from (absent, 0, negative), every value
\* declineInvitation, removeSentInvitation and removeChat write, and every invitation
\* counter acceptInvitation writes, is non-negative; the increments (both counters in
\* sendInvitation, activeChatCount in acceptInvitation) write the starting value (0 when
\* absent) plus 1, which is non-negative when the start is absent or at least -1.
C4_Written(u, f) ==
    /\ f \in DOMAIN users'[u]
    /\ f \notin DOMAIN users[u] \/ users'[u][f] # users[u][f]

C4_IsIncrement(f) ==
    \/ last'.op = "send"
          /\ f \in {"activeSentInvitationCount", "activeReceivedInvitationCount"}
    \/ last'.op = "accept" /\ f = "activeChatCount"

C8_OwnLastAction ==
    /\ ServiceCalled({"respondDate"})
    /\ connections[last'.cid].status = "chat_active"
    /\ IsParty(connections[last'.cid], last'.caller)
    /\ OrElse(connections[last'.cid], "dateProposalStatus", Null) \in {"proposed", "modified"}
    /\ OrElse(connections[last'.cid], "dateProposalLastActionBy", Null) = last'.caller

C9_Proposing ==
    /\ ServiceCalled({"proposeDate"})
    /\ connections[last'.cid].status = "chat_active"
    /\ IsParty(connections[last'.cid], last'.caller)
    /\ OrZero(connections[last'.cid], "messageCount") < MESSAGE_LIMIT

C9_OneProposalInFlight ==
    [][C9_Proposing =>
        LET status == OrElse(connections[last'.cid], "dateProposalStatus", Null) IN
        /\ status \in {"proposed", "modified"} =>
            /\ ~last'.ok
            /\ last'.err = "active_proposal"
            /\ last'.code = 409
            /\ last'.http = 409
            /\ StoreUnchanged
        /\ status \in {"none", "accepted", "rejected"} =>
            /\ last'.ok
            /\ connections'[last'.cid].dateProposalStatus = "proposed"
            /\ connections'[last'.cid].dateProposalProposerId = last'.caller]_vars

\* A proposal was refused because the other party's modification is in flight.
C9_Witness ==
    /\ last.op = "proposeDate" /\ last.err = "active_proposal" /\ last.http = 409
    /\ connections[last.cid].dateProposalStatus = "modified"
    /\ connections[last.cid].messageCount < MESSAGE_LIMIT

\* C10: a successful respondToDateProposal is made by the party who did not perform
\* the last action and leaves: accept -> status accepted, date, place and proposer as
\* before; reject -> status rejected, date, place and proposer null; modify with
\* {date: D2, place: P2} -> status modified, date D2, place P2, proposer as before; in
\* each case dateProposalLastActionBy is the caller, exactly one Message of type
\* date_response is appended and messageCount grows by 1.
C10_ResponseEffect ==
    LET c == last'.cid
        old == connections[c]
        new == connections'[c]
        kept(f) == new[f] = old[f]
    IN  /\ old.dateProposalLastActionBy # last'.caller
        /\ new.dateProposalLastActionBy = last'.caller
        /\ last'.arg = "accept" =>
            /\ new.dateProposalStatus = "accepted"
            /\ kept("dateProposalDate") /\ kept("dateProposalPlace")
            /\ kept("dateProposalProposerId")
        /\ last'.arg = "reject" =>
            /\ new.dateProposalStatus = "rejected"
            /\ new.dateProposalDate = Null /\ new.dateProposalPlace = Null
            /\ new.dateProposalProposerId = Null
        /\ last'.arg = "modify" =>
            /\ new.dateProposalStatus = "modified"
            /\ new.dateProposalDate = last'.body.date
            /\ new.dateProposalPlace = last'.body.place
            /\ kept("dateProposalProposerId")
        /\ Len(messages') = Len(messages) + 1
        /\ SubSeq(messages', 1, Len(messages)) = messages
        /\ messages'[Len(messages')].messageType = "date_response"
        /\ messages'[Len(messages')].connectionId = c
        /\ messages'[Len(messages')].senderId = last'.caller
        /\ new.messageCount = OrZero(old, "messageCount") + 1

C10_RespondSubState ==
    [][(last'.op = "respondDate" /\ last'.ok) => C10_ResponseEffect]_vars

\* The other party modified a proposal: the new date and place are stored and the
\* original proposer is kept.
C10_Witness ==
    /\ last.op = "respondDate" /\ last.ok /\ last.arg = "modify"
    /\ connections[last.cid].dateProposalStatus = "modified"
    /\ connections[last.cid].dateProposalDate = last.body.date
    /\ connections[last.cid].dateProposalDate # ProposalDetails.date
    /\ connections[last.cid].dateProposalProposerId \in Parties \ {last.caller}
    /\ messages[Len(messages)].messageType = "date_response"

\* ------------------------------------------------------------ discovery properties
DiscoveryOps == {"nextBatch", "randomSimple"}

\* The step handles a discovery request that reached the service.
Discovered == last'.op \in DiscoveryOps /\ last'.err # "validation"

\* The users whose profiles a response holds.
ReturnedIds(response) == {response.profiles[i].userId : i \in DOMAIN response.profiles}

\* Some HasShown row of the collection is a row (user, who).
HasRow(rows, user, who) ==
    \E i \in DOMAIN rows : rows[i].user = user /\ rows[i].who = who

\* C11: monotonic exclusion.  No discovery call of either variant, with any page or
\* limit, returns a candidate for whom a HasShown(requester, candidate) row existed
\* when the call started; every candidate a call returns has such a row when the call
\* ends, and no step of any request removes a row.  Hence a candidate returned to a
\* requester by an earlier call is never returned to the same requester by a later one.
C11_MonotonicExclusion ==
    [][/\ Discovered =>
            \A c \in ReturnedIds(last') :
                /\ ~HasRow(hasShown, last'.caller, c)
                /\ HasRow(hasShown', last'.caller, c)
       /\ \A i \in DOMAIN hasShown :
            HasRow(hasShown', hasShown[i].user, hasShown[i].who)]_vars

\* A call returned a candidate while an earlier row of the requester, for a user it
\* did not return, stands before the row of the returned one.
C11_Witness ==
    /\ last.op \in DiscoveryOps
    /\ \E i, j \in DOMAIN hasShown :
        /\ i < j
        /\ hasShown[i].user = last.caller
        /\ hasShown[j].user = last.caller
        /\ hasShown[i].who \notin ReturnedIds(last)
        /\ hasShown[j].who \in ReturnedIds(last)
        /\ hasShown[i].who \in DOMAIN biodata
        /\ hasShown[i].who \in DOMAIN locations

\* C12: every profile the randomized batch (getRandomProfilesSimple) returns is a
\* user other than the requester whose gender differs from the requester's, who has
\* no Connection with the requester in either direction, whatever its status, whose
\* CompletionStatus has isAllCompleted = true and who is not in incognito; the batch
\* holds at most `limit` profiles, all of distinct users.
C12_Eligible(requester, c) ==
    /\ c # requester
    /\ biodata[c].gender # biodata[requester].gender
    /\ \A i \in DOMAIN connections :
        {connections[i].senderId, connections[i].receiverId} # {requester, c}
    /\ c \in DOMAIN completion
    /\ completion[c].isAllCompleted
    /\ ~(c \in DOMAIN settings /\ settings[c].isIncognito)

C12_RandomBatch ==
    last.op = "randomSimple" =>
        /\ \A i \in DOMAIN last.profiles : C12_Eligible(last.caller, last.profiles[i].userId)
        /\ Len(last.profiles) <= last.num
        /\ \A i, j \in DOMAIN last.profiles :
            i # j => last.profiles[i].userId # last.profiles[j].userId

\* The randomized batch returned a profile and left out a user who differs in gender,
\* has a completed profile, is not in incognito and was never shown to the requester,
\* but has a Connection with the requester.
C12_Witness ==
    /\ last.op = "randomSimple"
    /\ Len(last.profiles) >= 1
    /\ \E c \in DOMAIN biodata \ ReturnedIds(last) :
        /\ c # last.caller
        /\ biodata[c].gender # biodata[last.caller].gender
        /\ c \in DOMAIN completion
        /\ completion[c].isAllCompleted
        /\ ~(c \in DOMAIN settings /\ settings[c].isIncognito)
        /\ ~HasRow(hasShown, last.caller, c)
        /\ \E i \in DOMAIN connections :
            {connections[i].senderId, connections[i].receiverId} = {last.caller, c}

\* C13: distance filter of the preference-filtered batch (getNextBatchProfiles).  For
\* every Preference of the requester whose max_distance_km is set to a number, 0
\* included, the Location of every returned profile is at a great-circle distance of
\* at most max_distance_km from the requester's Location; with max_distance_km = 50
\* and the requester at (0, 0) a candidate at (0, 0.1) is within and one at (10, 10)
\* is not.
C13_Far(response, i) ==
    haversine(locations[response.caller].latitude, locations[response.caller].longitude,
              response.profiles[i].location.latitude,
              response.profiles[i].location.longitude)

C13_Filtered(response) ==
    /\ response.op = "nextBatch"
    /\ response.ok
    /\ response.caller \in DOMAIN preferences
    /\ "max_distance_km" \in DOMAIN preferences[response.caller]

C13_DistanceFilter ==
    C13_Filtered(last) =>
        \A i \in DOMAIN last.profiles :
            C13_Far(last, i) <= preferences[last.caller].max_distance_km

\* The same with 0 left out: a max_distance_km of 1 km or more bounds the distance of
\* every returned profile.
C13_PositiveDistanceFilter ==
    (C13_Filtered(last) /\ preferences[last.caller].max_distance_km # 0) =>
        \A i \in DOMAIN last.profiles :
            C13_Far(last, i) <= preferences[last.caller].max_distance_km

\* With max_distance_km = 0 a profile 12 km away was returned.
C13_Witness ==
    /\ C13_Filtered(last)
    /\ preferences[last.caller].max_distance_km = 0
    /\ \E i \in DOMAIN last.profiles : C13_Far(last, i) > 0

\* ------------------------------------------------------------ notification properties
\* C14: a notification failure never fails the invitation.  For the send-invitation
\* request, whenever the Connection was created and the counters were updated, the
\* request reports success (status 200) to the caller and never an error, also when
\* the push call or the write of the notification record failed.
C14_InvitationStored ==
    /\ last'.op = "send"
    /\ Len(connections') = Len(connections) + 1
    /\ connections'[Len(connections')].status = "pending"
    /\ OrZero(users'[last'.caller], "activeSentInvitationCount")
            = OrZero(users[last'.caller], "activeSentInvitationCount") + 1

C14_NotificationNeverFails ==
    [][C14_InvitationStored => (last'.http = 200 /\ last'.ok)]_vars

\* An invitation was stored, its notification record was not, and the caller was
\* answered with status 500.
C14_Witness ==
    /\ last.op = "send"
    /\ last.http = 500
    /\ last.cid = Len(connections)
    /\ connections[last.cid].status = "pending"
    /\ connections[last.cid].senderId = last.caller
    /\ Len(notifications) < Len(connections)

\* C15: HasShown uniqueness.  In every state reached by discovery calls and by
\* sendInvitation / acceptInvitation / declineInvitation / removeSentInvitation
\* there is at most one HasShown row for each ordered (user, who) pair; a second
\* invitation between the same pair adds no second HasShown(receiver, sender) row.
C15_HasShownUnique ==
    \A i, j \in 1..Len(hasShown) :
        (hasShown[i].user = hasShown[j].user /\ hasShown[i].who = hasShown[j].who)
            => i = j

\* The discovery calls alone never add a row for a pair that already has one.
C15_DiscoveryAddsNoDuplicate ==
    [][\A i \in (Len(hasShown) + 1)..Len(hasShown') :
            \A j \in 1..Len(hasShown') :
                (hasShown'[i].user = hasShown'[j].user
                    /\ hasShown'[i].who = hasShown'[j].who) => i = j]_vars

\* A second visible invitation of the same sender to the same receiver was
\* stored, and the receiver now has two rows for that sender.
C15_Witness ==
    /\ last.op = "send"
    /\ last.ok
    /\ last.visible
    /\ \E c \in 1..(Len(connections) - 1) :
        /\ connections[c].senderId = last.caller
        /\ connections[c].receiverId = connections[Len(connections)].receiverId
    /\ \E i, j \in 1..Len(hasShown) :
        /\ i < j
        /\ hasShown[i].user = connections[Len(connections)].receiverId
        /\ hasShown[j].user = hasShown[i].user
        /\ hasShown[i].who = last.caller
        /\ hasShown[j].who = last.caller

\* C16: a successful acceptInvitation (sender and receiver distinct) leaves the
\* Connection chat_active with messageCount 0, dateProposalStatus none and the
\* four other proposal attributes null; the sender's activeSentInvitationCount and
\* the receiver's activeReceivedInvitationCount one lower, floored at 0; the
\* activeChatCount of both one higher; and every HasShown row between the two, in
\* both directions, with is_ignore false and is_interested true.
C16_Floored(n) == IF n - 1 > 0 THEN n - 1 ELSE 0

C16_Cleared(doc) ==
    /\ {"messageCount", "dateProposalStatus", "dateProposalDate", "dateProposalPlace",
        "dateProposalProposerId", "dateProposalLastActionBy"} \subseteq DOMAIN doc
    /\ doc.status = "chat_active"
    /\ doc.messageCount = 0
    /\ doc.dateProposalStatus = "none"
    /\ doc.dateProposalDate = Null
    /\ doc.dateProposalPlace = Null
    /\ doc.dateProposalProposerId = Null
    /\ doc.dateProposalLastActionBy = Null

C16_Between(row, a, b) == {row.user, row.who} = {a, b}

C16_AcceptEffect ==
    [][(last'.op = "accept" /\ last'.ok) =>
        LET c == last'.cid
            s == connections[c].senderId
            r == connections[c].receiverId
        IN  /\ s # r
            /\ C16_Cleared(connections'[c])
            /\ OrZero(users'[s], "activeSentInvitationCount")
                = C16_Floored(OrZero(users[s], "activeSentInvitationCount"))
            /\ OrZero(users'[r], "activeReceivedInvitationCount")
                = C16_Floored(OrZero(users[r], "activeReceivedInvitationCount"))
            /\ OrZero(users'[s], "activeChatCount")
                = OrZero(users[s], "activeChatCount") + 1
            /\ OrZero(users'[r], "activeChatCount")
                = OrZero(users[r], "activeChatCount") + 1
            /\ Len(hasShown') = Len(hasShown)
            /\ \A i \in 1..Len(hasShown') :
                /\ hasShown'[i].user = hasShown[i].user
                /\ hasShown'[i].who = hasShown[i].who
                /\ C16_Between(hasShown[i], s, r) =>
                    (~hasShown'[i].is_ignore /\ hasShown'[i].is_interested)]_vars

\* An invitation was accepted while HasShown rows existed in both directions
\* between its two users, one of them marked ignored by an earlier decline.
C16_Witness ==
    /\ last.op = "accept"
    /\ last.ok
    /\ connections[last.cid].status = "chat_active"
    /\ connections[last.cid].receiverId = last.caller
    /\ \E i, j \in 1..Len(hasShown) :
        /\ hasShown[i].user = last.caller
        /\ hasShown[i].who = connections[last.cid].senderId
        /\ hasShown[j].user = connections[last.cid].senderId
        /\ hasShown[j].who = last.caller
    /\ \E c \in 1..Len(connections) : connections[c].status = "declined"

\* C17: when an invitation is sent to a receiver who is at the received-invitation
\* quota (visibleToReceiver = false), the request produces no notification of
\* any kind for that receiver: neither a push message nor a notification record.
C17_InvisibleSend == last'.op = "send" /\ last'.ok /\ ~last'.visible

C17_NoNotificationWhenInvisible ==
    [][C17_InvisibleSend => (pushes' = pushes /\ notifications' = notifications)]_vars

\* The push half alone: an invisible invitation sends no push message.
C17_NoPushWhenInvisible ==
    [][C17_InvisibleSend => pushes' = pushes]_vars

\* An invisible invitation was stored without a push message, and the newest
\* notification record is addressed to its receiver, from its sender.
C17_Witness ==
    /\ last.op = "send"
    /\ last.ok
    /\ ~last.visible
    /\ last.cid = Len(connections)
    /\ Len(notifications) = Len(connections)
    /\ notifications[Len(notifications)].to = connections[last.cid].receiverId
    /\ notifications[Len(notifications)].from = last.caller
    /\ notifications[Len(notifications)].type = "invite"
    /\ Len(pushes) < Len(notifications)

\* C18: in every state reached by send / accept / decline / cancel operations,
\* getActiveReceivedInvitations(receiver) returns exactly the pending Connections
\* addressed to that receiver that were created with visibleToReceiver = true: an
\* invitation created invisible is never in the list, and a pending invitation
\* created visible is never missing from it.
C18_Listed(receiver) ==
    {entry.connectionId : entry \in Range(getActiveReceivedInvitations(Store, receiver))}

C18_VisiblePending(receiver) ==
    {c \in 1..Len(connections) :
        /\ connections[c].receiverId = receiver
        /\ connections[c].status = "pending"
        /\ sentVisible[c]}

C18_InboxIsVisiblePending ==
    \A receiver \in Users : C18_Listed(receiver) = C18_VisiblePending(receiver)

\* What the list does hold: pending Connections addressed to the receiver, at
\* most MAX_ACTIVE_RECEIVED_INVITATIONS of them, the oldest first.
C18_InboxIsOldestPending ==
    \A receiver \in Users :
        LET list == getActiveReceivedInvitations(Store, receiver)
            pending == {c \in 1..Len(connections) :
                            /\ connections[c].receiverId = receiver
                            /\ connections[c].status = "pending"}
        IN  /\ C18_Listed(receiver) \subseteq pending
            /\ Len(list) = Min(Cardinality(pending), MAX_ACTIVE_RECEIVED_INVITATIONS)
            /\ \A i \in 1..Len(list) : \A c \in pending \ C18_Listed(receiver) :
                    list[i].connectionId < c

\* The visible invitation of a receiver was declined and the list now holds the
\* invitation that was stored invisible while the receiver was at quota.
C18_Witness ==
    \E receiver \in Users : \E c \in C18_Listed(receiver) :
        /\ ~sentVisible[c]
        /\ connections[c].status = "pending"
        /\ \E d \in 1..Len(connections) :
            /\ connections[d].receiverId = receiver
            /\ connections[d].status # "pending"
            /\ sentVisible[d]

\* ------------------------------------------------------------ route properties
\* C19: for every route, when the service raises an error that carries an
\* application error code (400, 403 or 409), the response has that status; 500 is
\* used only when the error carries no code.  In particular remove-sent on a
\* Connection that is not pending or not sent by the caller responds 403.
C19_AppCodes == {400, 403, 409}

C19_StatusFromErrorCode ==
    /\ (~last.ok /\ last.code \in C19_AppCodes) => last.http = last.code
    /\ (~last.ok /\ last.http = 500) => last.code \notin C19_AppCodes

\* The same for every route but remove-sent.
C19_StatusFromErrorCodeElsewhere ==
    last.op # "cancel" => C19_StatusFromErrorCode

\* removeSentInvitation refused a Connection that is not pending or not the
\* caller's with code 403, and the route answered 500.
C19_Witness ==
    /\ last.op = "cancel"
    /\ ~last.ok
    /\ last.code = 403
    /\ last.http = 500
    /\ \/ connections[last.cid].status # "pending"
       \/ connections[last.cid].senderId # last.caller

\* C20: in no execution of either discovery variant is a list query issued whose
\* membership filter has an empty id list: every bulk lookup is skipped when its
\* id set is empty, including the hobby-label lookup when no selected candidate
\* references any hobby.
C20_NoEmptyMembershipQuery ==
    \A i \in DOMAIN last.queries : last.queries[i].ids # {}

\* Every bulk lookup but the hobby-label lookup of the random variant.
C20_OtherLookupsGuarded ==
    \A i \in DOMAIN last.queries :
        (last.queries[i].ids = {}) =>
            (last.op = "randomSimple" /\ last.queries[i].collection = "hobbies")

\* The random variant selected candidates of whom none references a hobby and
\* issued the hobby-label lookup with an empty id list.
C20_Witness ==
    /\ last.op = "randomSimple"
    /\ \E i \in DOMAIN last.queries :
        /\ last.queries[i].collection = "hobbies"
        /\ last.queries[i].ids = {}
    /\ \E i \in DOMAIN last.queries :
        /\ last.queries[i].collection = "prompts"
        /\ last.queries[i].ids # {}
        /\ \A u \in last.queries[i].ids : biodata[u].hobbies = {}

\* ------------------------------------------------------------ batch properties
\* C21: every profile returned by getNextBatchProfiles is a user other than the
\* requester who is not in incognito Settings, whose age satisfies
\* min_age <= age <= max_age, whose gender equals preferred_gender when one is
\* set, and who shares at least one hobby with preferred_hobbies when that list
\* is non-empty; the batch holds at most 25 profiles, all distinct.
C21_Wanted(requester, c) ==
    LET wish == preferences[requester]
        bio == biodata[c]
    IN  /\ c # requester
        /\ (c \in DOMAIN settings => ~settings[c].isIncognito)
        /\ wish.min_age <= bio.age
        /\ bio.age <= wish.max_age
        /\ ("preferred_gender" \in DOMAIN wish => bio.gender = wish.preferred_gender)
        /\ (wish.preferred_hobbies # {} =>
                \E h \in bio.hobbies : h \in wish.preferred_hobbies)

C22_Returns == last'.op \in DiscoveryOps /\ last'.ok

C22_ShownRows ==
    [][C22_Returns =>
        /\ \A c \in ReturnedIds(last') :
            \E i \in DOMAIN hasShown' :
                hasShown'[i].user = last'.caller /\ hasShown'[i].who = c
        /\ Len(hasShown') >= Len(hasShown)
        /\ \A i \in 1..Len(hasShown) : hasShown'[i] = hasShown[i]
        /\ \A i \in (Len(hasShown) + 1)..Len(hasShown') :
            /\ hasShown'[i].user = last'.caller
            /\ hasShown'[i].who \in ReturnedIds(last')
            /\ hasShown'[i].is_ignore = FALSE
            /\ hasShown'[i].is_interested = FALSE
        /\ Len(last'.profiles) = 0 => hasShown' = hasShown]_vars

\* A call returned a profile to a requester who already had a row, marked
\* interested, for a user who was not returned; the newest row is the returned
\* candidate's, with both flags false.
C22_Witness ==
    /\ last.op \in DiscoveryOps
    /\ last.ok
    /\ Len(last.profiles) > 0
    /\ hasShown[Len(hasShown)] =
            [user |-> last.caller, who |-> last.profiles[Len(last.profiles)].userId,
             is_ignore |-> FALSE, is_interested |-> FALSE]
    /\ \E i \in DOMAIN hasShown :
        /\ hasShown[i].user = last.caller
        /\ hasShown[i].who \notin ReturnedIds(last)
        /\ hasShown[i].is_interested

\* ------------------------------------------------------------ counter properties
\* C23: counter lockstep (sent and chat).  From a state where the counters match
\* the Connections, after any sequence of sendInvitation, acceptInvitation,
\* declineInvitation, removeSentInvitation and removeChat between distinct users,
\* every user's activeSentInvitationCount equals the number of pending
\* Connections with that user as sender, and every user's activeChatCount equals
\* the number of chat_active Connections in which the user is sender or receiver.
C23_PendingSentBy(u) ==
    {c \in 1..Len(connections) :
        connections[c].status = "pending" /\ connections[c].senderId = u}

C23_ActiveChatsOf(u) ==
    {c \in 1..Len(connections) :
        /\ connections[c].status = "chat_active"
        /\ u \in {connections[c].senderId, connections[c].receiverId}}

C23_SentAndChatLockstep ==
    \A u \in Users :
        /\ OrZero(users[u], "activeSentInvitationCount") = Cardinality(C23_PendingSentBy(u))
        /\ OrZero(users[u], "activeChatCount") = Cardinality(C23_ActiveChatsOf(u))

\* A chat was removed while its sender still has another invitation pending: the
\* sender counts one sent invitation and no chat.
C23_Witness ==
    /\ last.op = "removeChat"
    /\ last.ok
    /\ \E u \in Users :
        /\ connections[last.cid].senderId = u
        /\ Cardinality(C23_PendingSentBy(u)) = 1
        /\ users[u].activeSentInvitationCount = 1
        /\ users[u].activeChatCount = 0

\* C24: counter lockstep (received).  From a consistent state, after any sequence
\* of sendInvitation, acceptInvitation, declineInvitation and
\* removeSentInvitation, every user's activeReceivedInvitationCount equals the
\* number of pending Connections addressed to that user that were created with
\* visibleToReceiver = true; ending a Connection created with
\* visibleToReceiver = false does not change the receiver's counter.
C24_CountedPending(u) ==
    {c \in 1..Len(connections) :
        /\ connections[c].status = "pending"
        /\ connections[c].receiverId = u
        /\ sentVisible[c]}

C24_ReceivedLockstep ==
    \A u \in Users :
        OrZero(users[u], "activeReceivedInvitationCount")
            = Cardinality(C24_CountedPending(u))

\* An invitation that was stored invisible was cancelled, declined or accepted,
\* and its receiver, who still holds a visible pending invitation, counts none.
C24_Witness ==
    /\ last.op \in {"cancel", "decline", "accept"}
    /\ last.ok
    /\ ~sentVisible[last.cid]
    /\ C24_CountedPending(connections[last.cid].receiverId) # {}
    /\ users[connections[last.cid].receiverId].activeReceivedInvitationCount = 0

\* C25: received-invitation quota.  In every state reached by send / accept /
\* decline / cancel operations from a consistent state, the number of pending
\* Connections addressed to one user that were delivered as visible never
\* exceeds MAX_ACTIVE_RECEIVED_INVITATIONS.
C25_VisiblePending(u) ==
    {c \in 1..Len(connections) :
        /\ connections[c].status = "pending"
        /\ connections[c].receiverId = u
        /\ sentVisible[c]
        /\ \E i \in DOMAIN hasShown :
            hasShown[i].user = u /\ hasShown[i].who = connections[c].senderId}

C25_ReceivedQuota ==
    \A u \in Users : Cardinality(C25_VisiblePending(u)) <= MAX_ACTIVE_RECEIVED_INVITATIONS

\* An invitation was delivered as visible to a receiver who already held
\* MAX_ACTIVE_RECEIVED_INVITATIONS visible pending invitations.
C25_Witness ==
    /\ last.op = "send"
    /\ last.ok
    /\ last.visible
    /\ last.cid \in C25_VisiblePending(connections[last.cid].receiverId)
    /\ Cardinality(C25_VisiblePending(connections[last.cid].receiverId))
            = MAX_ACTIVE_RECEIVED_INVITATIONS + 1

\* C26: the active-chat quota holds for every user.  From a state where every
\* activeChatCount is at most MAX_ACTIVE_CHATS, no user's activeChatCount and no
\* user's number of chat_active Connections exceeds MAX_ACTIVE_CHATS, for the
\* receiver who accepts an invitation and for the sender whose invitation is
\* accepted.
C26_ChatsOf(u) ==
    {c \in 1..Len(connections) :
        /\ connections[c].status = "chat_active"
        /\ (connections[c].senderId = u \/ connections[c].receiverId = u)}

C26_ChatQuotaForAll ==
    \A u \in Users :
        /\ OrZero(users[u], "activeChatCount") <= MAX_ACTIVE_CHATS
        /\ Cardinality(C26_ChatsOf(u)) <= MAX_ACTIVE_CHATS

\* An invitation was accepted by a receiver within the quota while its sender
\* already had MAX_ACTIVE_CHATS chats: the sender is now one over.
C26_Witness ==
    /\ last.op = "accept"
    /\ last.ok
    /\ connections[last.cid].receiverId = last.caller
    /\ OrZero(users[last.caller], "activeChatCount") <= MAX_ACTIVE_CHATS
    /\ OrZero(users[connections[last.cid].senderId], "activeChatCount")
            = MAX_ACTIVE_CHATS + 1
    /\ Cardinality(C26_ChatsOf(connections[last.cid].senderId)) = MAX_ACTIVE_CHATS + 1

\* ------------------------------------------------------------ chat failure properties
\* The attributes of a Connection that count its messages or describe its date
\* proposal are the same before and after the step.
ChatFields ==
    {"messageCount", "dateProposalStatus", "dateProposalDate", "dateProposalPlace",
     "dateProposalProposerId", "dateProposalLastActionBy"}

ChatFieldsKept(c) ==
    \A f \in ChatFields :
        /\ (f \in DOMAIN connections'[c]) = (f \in DOMAIN connections[c])
        /\ f \in DOMAIN connections[c] => connections'[c][f] = connections[c][f]

\* C27: a respondToDateProposal call that fails for any reason (Connection not
\* chat_active, caller not a party, no active proposal because dateProposalStatus
\* is none / accepted / rejected, message budget exhausted, unknown responseType,
\* or modify with a missing or empty new date or place) writes no Message row and
\* leaves messageCount and every dateProposal field of the Connection unchanged.
C27_MustFail ==
    LET doc == connections[last'.cid] IN
    \/ doc.status # "chat_active"
    \/ last'.caller \notin {doc.senderId, doc.receiverId}
    \/ "dateProposalStatus" \notin DOMAIN doc
    \/ doc.dateProposalStatus \in {"none", "accepted", "rejected"}
    \/ ("messageCount" \in DOMAIN doc /\ doc.messageCount >= MESSAGE_LIMIT)
    \/ last'.arg \notin {"accept", "reject", "modify"}
    \/ (last'.arg = "modify" /\ (last'.body.date = Empty \/ last'.body.place = Empty))

C27_FailedResponseWritesNothing ==
    [][(last'.op = "respondDate" /\ (~last'.ok \/ C27_MustFail)) =>
        /\ ~last'.ok
        /\ last'.http \in {400, 403}
        /\ messages' = messages
        /\ ChatFieldsKept(last'.cid)]_vars

\* A party's response to a proposal that was already accepted was refused, in a
\* chat that holds messages.
C27_Witness ==
    /\ last.op = "respondDate"
    /\ ~last.ok
    /\ last.err = "no_active_proposal"
    /\ last.caller \in {connections[last.cid].senderId, connections[last.cid].receiverId}
    /\ connections[last.cid].status = "chat_active"
    /\ connections[last.cid].dateProposalStatus = "accepted"
    /\ Len(messages) > 0

\* C28: Message and MessagesInbox rows are created only while a Connection is
\* chat_active and only by its parties: sendMessage, proposeDate and
\* respondToDateProposal called on a Connection whose status is pending, declined,
\* cancelled, chat_removed_by_sender or chat_removed_by_receiver, or called by a
\* user who is neither its sender nor its receiver, fail with 403, create no
\* Message row, create or update no MessagesInbox row, and leave messageCount and
\* the dateProposal fields unchanged.
C28_ChatOps == {"sendMessage", "proposeDate", "respondDate"}

C28_ClosedStatuses ==
    {"pending", "declined", "cancelled", "chat_removed_by_sender",
     "chat_removed_by_receiver"}

C28_Outsider ==
    \/ connections[last'.cid].status \in C28_ClosedStatuses
    \/ last'.caller \notin {connections[last'.cid].senderId,
                            connections[last'.cid].receiverId}

C28_OnlyActiveChatsOfParties ==
    [][/\ (ServiceCalled(C28_ChatOps) /\ C28_Outsider) =>
            /\ ~last'.ok
            /\ last'.code = 403
            /\ last'.http = 403
            /\ messages' = messages
            /\ inbox' = inbox
            /\ ChatFieldsKept(last'.cid)
       /\ (messages' # messages \/ inbox' # inbox) =>
            /\ last'.op \in C28_ChatOps
            /\ last'.ok
            /\ connections[last'.cid].status = "chat_active"
            /\ last'.caller \in {connections[last'.cid].senderId,
                                 connections[last'.cid].receiverId}]_vars

\* The receiver of a declined invitation tried to send its sender a message and
\* was refused with 403.
C28_Witness ==
    /\ last.op = "sendMessage"
    /\ ~last.ok
    /\ last.http = 403
    /\ connections[last.cid].status = "declined"
    /\ connections[last.cid].receiverId = last.caller
    /\ messages = <<>>
    /\ last.cid \notin DOMAIN inbox

\* C29: inbox projection.  After every successful sendMessage, proposeDate and
\* respondToDateProposal on a Connection, the MessagesInbox record whose id is the
\* connectionId exists and its message, senderId and messageType equal those of
\* the most recently written Message of that Connection.
C29_Projected(ops) ==
    (last'.op \in ops /\ last'.ok) =>
        LET newest == messages'[Len(messages')] IN
        /\ Len(messages') = Len(messages) + 1
        /\ newest.connectionId = last'.cid
        /\ last'.cid \in DOMAIN inbox'
        /\ {"message", "senderId", "messageType"} \subseteq DOMAIN inbox'[last'.cid]
        /\ inbox'[last'.cid].message = newest.message
        /\ inbox'[last'.cid].senderId = newest.senderId
        /\ inbox'[last'.cid].messageType = newest.messageType

C29_InboxProjection ==
    [][C29_Projected({"sendMessage", "proposeDate", "respondDate"})]_vars

\* The projection after a message and after a proposal.
C29_InboxProjectionOfMessages ==
    [][C29_Projected({"sendMessage", "proposeDate"})]_vars

\* A response to a date proposal was stored as the newest Message of its
\* Connection while the inbox record still shows an earlier message.
C29_Witness ==
    /\ last.op = "respondDate"
    /\ last.ok
    /\ messages[Len(messages)].connectionId = last.cid
    /\ messages[Len(messages)].messageType = "date_response"
    /\ messages[Len(messages)].senderId = last.caller
    /\ last.cid \in DOMAIN inbox
    /\ inbox[last.cid].messageType # "date_response"
    /\ inbox[last.cid].senderId # last.caller

\* ------------------------------------------------------------ has-shown properties
\* C30: HasShown asymmetry of cancel.  A successful removeSentInvitation sets
\* is_ignore = true, is_interested = false only on the rows with user = sender and
\* who = receiver and leaves every row with user = receiver and who = sender
\* unchanged; a successful declineInvitation sets them on the rows of both
\* directions.  Neither operation creates or deletes a HasShown row.
C30_Ignored(row) == row.is_ignore = TRUE /\ row.is_interested = FALSE

C30_SameRows ==
    /\ Len(hasShown') = Len(hasShown)
    /\ \A i \in 1..Len(hasShown) :
        hasShown'[i].user = hasShown[i].user /\ hasShown'[i].who = hasShown[i].who

C30_CancelAndDecline ==
    [][LET s == connections[last'.cid].senderId
           r == connections[last'.cid].receiverId
       IN  /\ (last'.op = "cancel" /\ last'.ok) =>
                /\ C30_SameRows
                /\ \A i \in 1..Len(hasShown) :
                    IF hasShown[i].user = s /\ hasShown[i].who = r
                    THEN C30_Ignored(hasShown'[i])
                    ELSE hasShown'[i] = hasShown[i]
           /\ (last'.op = "decline" /\ last'.ok) =>
                /\ C30_SameRows
                /\ \A i \in 1..Len(hasShown) :
                    IF {hasShown[i].user, hasShown[i].who} = {s, r}
                    THEN C30_Ignored(hasShown'[i])
                    ELSE hasShown'[i] = hasShown[i]]_vars

\* A sender who had been invited by the receiver cancelled the own invitation:
\* the sender's row for the receiver is marked ignored, and the receiver's row
\* for the sender, created by sendInvitation, still says interested.
C30_Witness ==
    /\ last.op = "cancel"
    /\ last.ok
    /\ connections[last.cid].status = "cancelled"
    /\ \E i, j \in 1..Len(hasShown) :
        /\ hasShown[i].user = last.caller
        /\ hasShown[i].who = connections[last.cid].receiverId
        /\ C30_Ignored(hasShown[i])
        /\ hasShown[j].user = connections[last.cid].receiverId
        /\ hasShown[j].who = last.caller
        /\ hasShown[j].is_interested
        /\ ~hasShown[j].is_ignore

\* ------------------------------------------------------------ interleaving properties
\* C31: when accept, decline and cancel requests for the same pending Connection
\* interleave at single store calls, the Connection's status leaves pending at most
\* once: a Connection written declined or cancelled is never afterwards written
\* chat_active, and one written chat_active is never afterwards written declined or
\* cancelled.
C31_StatusLeavesPendingOnce ==
    [][\A i \in DOMAIN connections :
        /\ connections[i].status \in {"declined", "cancelled"}
                => connections'[i].status # "chat_active"
        /\ connections[i].status = "chat_active"
                => connections'[i].status \notin {"declined", "cancelled"}]_vars

\* An accept and a decline or a cancel of the same Connection both ended in success.
C31_Witness ==
    \E p \in DOMAIN calls, q \in DOMAIN calls :
        /\ calls[p].op = "accept" /\ calls[p].ok
        /\ calls[q].op \in {"decline", "cancel"} /\ calls[q].ok
        /\ calls[p].cid = calls[q].cid

\* Message rows of a Connection.
C32_Rows(connectionId) ==
    {i \in DOMAIN messages : messages[i].connectionId = connectionId}

\* C32: under every interleaving of concurrent sendMessage, proposeDate and
\* respondToDateProposal requests on one chat_active Connection, the number of
\* Message rows of that Connection never exceeds MESSAGE_LIMIT.
C32_RowsWithinLimit ==
    \A c \in DOMAIN connections :
        connections[c].status = "chat_active"
            => Cardinality(C32_Rows(c)) <= MESSAGE_LIMIT

\* Two requests that both ended in success left a row past the limit.
C32_Witness ==
    /\ Cardinality(C32_Rows(1)) > MESSAGE_LIMIT
    /\ Len(calls) = 2
    /\ \A p \in DOMAIN calls : calls[p].ok

\* The pending Connections a user sent: what activeSentInvitationCount counts.
C33_PendingSentBy(u) ==
    {i \in DOMAIN connections :
        connections[i].senderId = u /\ connections[i].status = "pending"}

\* C33: counter drift is reachable.  There is an interleaving of two concurrent
\* sendInvitation requests of the same sender after which, both having ended in
\* success, the sender's activeSentInvitationCount differs from the number of
\* pending Connections the sender sent (C33_Witness).  The drift is a lost update:
\* the counter is never ahead of the Connections, it falls behind them.
C33_CounterNeverAhead ==
    \A u \in Parties :
        OrZero(users[u], "activeSentInvitationCount") <= Cardinality(C33_PendingSentBy(u))

\* Two invitations of u1 both ended in success and the counter is short of the
\* pending Connections u1 sent.
C33_Witness ==
    /\ Len(calls) = 2
    /\ \A p \in DOMAIN calls : calls[p].op = "send" /\ calls[p].caller = "u1" /\ calls[p].ok
    /\ OrZero(users["u1"], "activeSentInvitationCount") < Cardinality(C33_PendingSentBy("u1"))

\* The ways sendInvitation itself fails.
C35_Failures == {"sender_not_found", "sent_quota", "receiver_not_found", "store_failed"}

\* C35: failure atomicity of sendInvitation.  Whenever sendInvitation fails (sender
\* not found, sender quota exceeded, receiver not found, or a store call failing),
\* no Connection has been created and no User counter has been changed by that
\* call: when the only request received so far is an invitation that failed, the
\* Connections and the User documents are those of the initial store.
C35_FailedSendWritesNothing ==
    (/\ Len(calls) = 1
     /\ calls[1].op = "send"
     /\ calls[1].pc = "done"
     /\ calls[1].err \in C35_Failures)
        => \E db \in {EmptyStore, BacklogStore} :
                connections = db.connections /\ users = db.users

\* The invitation of u1 failed at a store call and left a Connection and the
\* incremented counter behind.
C35_Witness ==
    /\ Len(calls) = 1
    /\ calls[1].op = "send" /\ calls[1].caller = "u1"
    /\ calls[1].pc = "done" /\ calls[1].err = "store_failed"
    /\ Len(connections) = 1
    /\ OrZero(users["u1"], "activeSentInvitationCount") = 1

\* HasShown rows of a pair.
C34_Rows(user, who) ==
    {i \in DOMAIN hasShown : hasShown[i].user = user /\ hasShown[i].who = who}

\* The requests of a user whose batch holds the candidate.
C34_Returning(user, who) ==
    {p \in DOMAIN calls :
        /\ calls[p].caller = user
        /\ calls[p].pc \in {"listShown", "createShown", "return"} \/ calls[p].ok
        /\ \E i \in DOMAIN calls[p].mem.profiles : calls[p].mem.profiles[i].userId = who}

\* C34: the HasShown check-then-create of discovery is racy.  Two concurrent
\* discovery requests of the same requester that return the same candidate can both
\* see no row for the pair and both insert one: two rows for the same (user, who)
\* pair, the candidate returned by both (C34_Witness).  A request inserts for no
\* one but the candidates of its batch and once for each, so the rows of a pair
\* are never more than the requests that return the candidate.
C34_RowPerReturningRequest ==
    \A user \in Users, who \in Users :
        Cardinality(C34_Rows(user, who)) <= Cardinality(C34_Returning(user, who))

\* Two requests of u1 ended in success, both returned the same candidate, and the
\* pair has two rows.
C34_Witness ==
    \E who \in Users :
        /\ Cardinality(C34_Rows("u1", who)) = 2
        /\ Len(calls) = 2
        /\ \A p \in DOMAIN calls : calls[p].pc = "done" /\ calls[p].ok
        /\ C34_Returning("u1", who) = {1, 2}

\* ------------------------------------------------------------ pair properties
\* The live Connections of an unordered pair of users: pending or chat_active, in
\* either direction.
C36_Live(a, b) ==
    {i \in DOMAIN connections :
        /\ {connections[i].senderId, connections[i].receiverId} = {a, b}
        /\ connections[i].status \in {"pending", "chat_active"}}

\* C36: for every unordered pair of users there is at most one Connection that is
\* pending or chat_active, in either direction; a sendInvitation between a pair
\* that already has one does not create a second.
C36_OneLivePerPair ==
    \A a \in Users, b \in Users : Cardinality(C36_Live(a, b)) <= 1

\* A send that ended in success left the pair with two live Connections.
C36_Witness ==
    /\ last.op = "send" /\ last.ok
    /\ Cardinality(C36_Live(last.caller, last.arg)) = 2

\* ------------------------------------------------------------ read properties
\* C37: transcript confidentiality.  A user who is neither the sender nor the
\* receiver of a Connection never obtains its Messages or its chat state: the
\* chat-state and messages routes answer a caller who is no party with an error
\* and without data.
C37_OnlyPartiesRead ==
    [][(/\ last'.op \in {"chatState", "chatMessages"}
        /\ ~IsParty(connections[last'.cid], last'.caller))
            => ~last'.ok /\ last'.rows = <<>>]_vars

\* The chat state goes to parties of a chat_active Connection only.
C37_ChatStateOnlyToParties ==
    [][(/\ last'.op = "chatState"
        /\ ~IsParty(connections[last'.cid], last'.caller))
            => ~last'.ok /\ last'.rows = <<>> /\ last'.http = 403]_vars

\* The third user was answered with the Messages of the Connection of the other
\* two.
C37_Witness ==
    /\ last.op = "chatMessages"
    /\ last.caller = "u3"
    /\ last.ok /\ last.http = 200
    /\ Len(last.rows) > 0
    /\ ~IsParty(connections[last.cid], "u3")

\* ------------------------------------------------------------ completeness properties
\* The candidates of a requester that satisfy every filter of getNextBatchProfiles:
\* another user with a Location within the preferred distance, never shown to the
\* requester, not in incognito, with a Biodata of the preferred ages and gender that
\* shares a preferred hobby when hobbies are preferred.
C38_Candidates(requester) ==
    IF requester \notin DOMAIN preferences \/ requester \notin DOMAIN locations
    THEN {}
    ELSE
        LET wish == preferences[requester]
            here == locations[requester]
        IN  {c \in (DOMAIN locations \cap DOMAIN biodata) \ {requester} :
                /\ ~\E i \in DOMAIN hasShown :
                        hasShown[i].user = requester /\ hasShown[i].who = c
                /\ \/ "max_distance_km" \notin DOMAIN wish
                   \/ wish.max_distance_km = 0
                   \/ haversine(here.latitude, here.longitude,
                                locations[c].latitude, locations[c].longitude)
                        <= wish.max_distance_km
                /\ (c \in DOMAIN settings => ~settings[c].isIncognito)
                /\ wish.min_age <= biodata[c].age
                /\ biodata[c].age <= wish.max_age
                /\ ("preferred_gender" \in DOMAIN wish
                        => biodata[c].gender = wish.preferred_gender)
                /\ (wish.preferred_hobbies # {}
                        => biodata[c].hobbies \cap wish.preferred_hobbies # {})}

\* C38: discovery completeness of getNextBatchProfiles.  Calling it repeatedly until
\* it returns an empty batch has returned every candidate that satisfies all
\* filters; in particular, while such a candidate exists, a call with page = 0
\* returns a non-empty batch.
C38_EmptyOnlyWhenExhausted ==
    [][(/\ last'.op = "nextBatch"
        /\ last'.num = 0
        /\ last'.ok
        /\ last'.profiles = <<>>)
            => C38_Candidates(last'.caller) = {}]_vars

\* The first page came back empty while a candidate that satisfies every filter
\* was never shown.
C38_Witness ==
    /\ last.op = "nextBatch"
    /\ last.num = 0
    /\ last.ok
    /\ last.profiles = <<>>
    /\ C38_Candidates(last.caller) # {}

\* ------------------------------------------------------------ chat bookkeeping properties
\* The number of Message rows of a Connection in a Messages collection.
C39_RowCount(rows, connectionId) ==
    Cardinality({i \in DOMAIN rows : rows[i].connectionId = connectionId})

C39_Writers == {"sendMessage", "proposeDate", "respondDate"}

\* C39: in sequential executions without store failure, for every accepted
\* Connection messageCount equals the number of Message rows with that
\* connectionId; each successful sendMessage, proposeDate and
\* respondToDateProposal creates exactly one Message and increases messageCount by
\* one, and no other operation changes either.
C39_CountIsRowCount ==
    /\ [](\A c \in DOMAIN connections :
            "messageCount" \in DOMAIN connections[c]
                => connections[c].messageCount = C39_RowCount(messages, c))
    /\ [][\A c \in DOMAIN connections :
            LET wrote == last'.op \in C39_Writers /\ last'.ok /\ last'.cid = c
                step == IF wrote THEN 1 ELSE 0
            IN  /\ C39_RowCount(messages', c) = C39_RowCount(messages, c) + step
                /\ OrZero(connections'[c], "messageCount")
                        = OrZero(connections[c], "messageCount") + step]_vars

\* A response was written into a long chat: the count and the rows moved together.
C39_Witness ==
    /\ last.op = "respondDate" /\ last.ok
    /\ connections[last.cid].messageCount = C39_RowCount(messages, last.cid)
    /\ connections[last.cid].messageCount > MaxNewMessages

\* An attribute of a Connection holds a value.
C40_Set(c, field) ==
    field \in DOMAIN connections[c] /\ connections[c][field] \notin {Null, Empty}

\* C40: the date-proposal sub-state of every chat_active Connection is well
\* formed.  When dateProposalStatus is proposed, modified or accepted, the date,
\* the place, the proposer and the last actor are set, and the proposer and the
\* last actor are parties of the Connection; when it is none or rejected, the
\* date, the place and the proposer are null; when it is proposed, the last actor
\* is the proposer.
C40_WellFormedProposal ==
    \A c \in DOMAIN connections :
        connections[c].status = "chat_active" =>
            LET doc == connections[c]
                status == OrElse(doc, "dateProposalStatus", "none")
            IN  /\ status \in {"none", "proposed", "modified", "accepted", "rejected"}
                /\ status \in {"proposed", "modified", "accepted"} =>
                        /\ C40_Set(c, "dateProposalDate")
                        /\ C40_Set(c, "dateProposalPlace")
                        /\ C40_Set(c, "dateProposalProposerId")
                        /\ C40_Set(c, "dateProposalLastActionBy")
                        /\ doc.dateProposalProposerId \in {doc.senderId, doc.receiverId}
                        /\ doc.dateProposalLastActionBy \in {doc.senderId, doc.receiverId}
                /\ status \in {"none", "rejected"} =>
                        /\ ~C40_Set(c, "dateProposalDate")
                        /\ ~C40_Set(c, "dateProposalPlace")
                        /\ ~C40_Set(c, "dateProposalProposerId")
                /\ status = "proposed" =>
                        doc.dateProposalLastActionBy = doc.dateProposalProposerId

\* A proposal was modified by the other party: every attribute is set and the last
\* actor is not the proposer.
C40_Witness ==
    /\ last.op = "respondDate" /\ last.ok
    /\ connections[last.cid].status = "chat_active"
    /\ connections[last.cid].dateProposalStatus = "modified"
    /\ connections[last.cid].dateProposalLastActionBy = last.caller
    /\ connections[last.cid].dateProposalProposerId # last.caller

====
